---- MODULE Spec2Model ----
(***************************************************************************)
(* Sequential Knowledge-Graph Update Engine of FoodMemory: one narration   *)
(* at a time is resolved, matched against the graph, sent to the reasoning *)
(* oracle (bounded retry), validated, applied to the graph and recorded in *)
(* a snapshot.  Times are in integer ticks.                                *)
(***************************************************************************)
EXTENDS Integers, Sequences, FiniteSets, TLC

VARIABLES
    kg,          \* the Graph Store: [foods, zones], both maps keyed by id
    persisted,   \* the graph as last saved to the KG JSON file
    total,       \* number of narrations of the input (CSV rows, after --limit)
    processed,   \* number of narrations fully processed
    pc,          \* orchestrator position: "idle", "calling" (blocked in the oracle call), "done"
    cur,         \* narration being processed (the last one when idle)
    existing,    \* food_id the candidate matcher returned for cur, or NullId
    prompt,      \* prompt to be sent at the next oracle call
    sent,        \* prompts sent to the oracle for cur, in order
    fails,       \* failure kind of each failed attempt for cur, in order
    applied,     \* number of proposals applied to the graph for cur
    kg_before,   \* the graph when processing of cur started
    llm_output,  \* the oracle's answer for cur that passed validation, as parsed
    update_command, \* the validated command handed to execute_kg_update for cur
    snapshots,   \* snapshot files, in the order written
    index,       \* lines of snapshots_metadata.jsonl
    restarts,    \* number of times the run was aborted and started again
    disk,        \* the snapshot directory: "ok", or "failing" (writes raise)
    \* AIAssistedAnnotator / OutputEditAnnotator (React state)
    data,              \* the tasks as loaded from the input file, <<>> before the load
    tasks,             \* the task list
    currentTaskIndex,  \* index (from 0) of the task shown
    selectedTasks,     \* ids ticked for merging
    mergeMode,         \* merge mode is on
    actionHistory,     \* the last merge and unmerge actions, for undo
    nextMergedId,      \* number of the next merged id
    lastAction,        \* the handler that ran last
    tasksBefore,       \* the task list when the last merge, unmerge or undo
                       \* started; <<>> once another handler has run
    \* Timeline (React state and the listeners on the document)
    isDragging,        \* a drag is going on
    dragType,          \* "start", "end", "move", or "none" for null
    dragStart,         \* dragStart.time: the time noted when the drag began
    listeners,         \* the mousemove listeners registered, each with the
                       \* values of the render that created it
    \* KGVisualizer (React state and requests in flight)
    selectedSnapshotDir,   \* name of the directory chosen
    snapshotList,          \* the state `snapshots`: metadata entries of a directory
    currentSnapshotIndex,  \* index (from 0) of the entry highlighted
    currentSnapshot,       \* the snapshot displayed, or NullId
    inflight,              \* fetches sent and not yet answered
    keyPressDir            \* selectedSnapshotDir as the registered handleKeyPress
                           \* sees it

timeline == <<isDragging, dragType, dragStart, listeners>>

annotator == <<data, tasks, currentTaskIndex, selectedTasks, mergeMode,
               actionHistory, nextMergedId, lastAction, tasksBefore, timeline>>

viewer == <<selectedSnapshotDir, snapshotList, currentSnapshotIndex,
            currentSnapshot, inflight, keyPressDir>>

vars == <<kg, persisted, total, processed, pc, cur, existing, prompt, sent,
          fails, applied, kg_before, llm_output, update_command, snapshots, index,
          restarts, disk, annotator, viewer>>

----------------------------------------------------------------------------
(* Bounds of the model *)

MaxNarrations == 2
SaveInterval == 2
Duration == 2
MaxRestarts == 1
MaxHistory == 4

(* Program constants *)

MaxAttempts == 3
Tolerance == 1
DupWindow == 10

None == "none"
NullId == <<>>

----------------------------------------------------------------------------
(* Entity resolver (deterministic strategy) *)

FOOD_KEYWORDS == {"mug", "milk"}
LOCATION_KEYWORDS == {"fridge", "counter"}
TOOL_KEYWORDS == {"scissors"}

NounLists ==
    { <<"scissors", "fridge">>, <<"handle", "mug", "fridge">> }

Videos == <<"v1", "v2">>

RECURSIVE FirstIn(_, _)
FirstIn(nouns, S) ==
    IF nouns = <<>> THEN None
    ELSE IF Head(nouns) \in S THEN Head(nouns)
    ELSE FirstIn(Tail(nouns), S)

extract_entities(nouns) ==
    [ food_entity     |-> FirstIn(nouns, FOOD_KEYWORDS \ TOOL_KEYWORDS),
      location_entity |-> FirstIn(nouns, LOCATION_KEYWORDS) ]

----------------------------------------------------------------------------
(* Graph Store *)

EmptyKG == [foods |-> <<>>, zones |-> <<>>]

FoodIds(g) == DOMAIN g.foods
ZoneIds(g) == DOMAIN g.zones

Put(f, k, v) == [x \in (DOMAIN f) \cup {k} |-> IF x = k THEN v ELSE f[x]]

get_zone_by_name(g, name) ==
    LET hits == {z \in ZoneIds(g) : g.zones[z].name = name}
    IN IF hits = {} THEN NullId
       ELSE CHOOSE z \in hits : \A y \in hits : z[3] <= y[3]

add_zone(g, name) ==
    LET zid == <<"zone", name, Cardinality(ZoneIds(g)) + 1>>
    IN [g EXCEPT !.zones =
            Put(g.zones, zid, [zone_id |-> zid, name |-> name, type |-> "Storage"])]

\* case folding of the names that occur
Lower(name) ==
    CASE name = "Mug" -> "mug"
      [] name = "Milk" -> "milk"
      [] OTHER -> name

\* mutant of NewFoodId: the count is that of the nodes of the same name
NewFoodId_PerName(g, name) ==
    <<"food", Lower(name),
      Cardinality({ f \in FoodIds(g) : g.foods[f].name = name }) + 1>>

\* food_{name}_{count}: the name normalised, the count that of all nodes
NewFoodId(g, name) == <<"food", Lower(name), Cardinality(FoodIds(g)) + 1>>

add_food_node(g, name, state, quantity, location, first_seen) ==
    LET fid == NewFoodId(g, name)
    IN [g EXCEPT !.foods =
            Put(g.foods, fid,
                [food_id |-> fid, name |-> name, state |-> state,
                 quantity |-> quantity, location |-> location,
                 first_seen_time |-> first_seen,
                 interaction_history |-> <<>>])]

\* mutants of add_interaction: the history is overwritten; the record is
\* inserted in front
add_interaction_replace(g, fid, entry) ==
    [g EXCEPT !.foods[fid].interaction_history = <<entry>>]

add_interaction_prepend(g, fid, entry) ==
    [g EXCEPT !.foods[fid].interaction_history = <<entry>> \o @]

add_interaction(g, fid, entry) ==
    [g EXCEPT !.foods[fid].interaction_history = Append(@, entry)]

----------------------------------------------------------------------------
(* Lookup: find_food and the candidate matcher *)

\* pattern is a substring of text, case-insensitively
Contains(text, pattern) ==
    \/ Lower(text) = Lower(pattern)
    \/ <<Lower(pattern), Lower(text)>> \in {<<"milk", "milk bottle">>}

LastRecord(node) == node.interaction_history[Len(node.interaction_history)]

last_interaction_time(node) ==
    IF node.interaction_history = <<>> THEN node.first_seen_time
    ELSE LastRecord(node).end_time

location_matches(g, node, location) ==
    /\ node.location # NullId
    /\ node.location \in ZoneIds(g)
    /\ Contains(g.zones[node.location].name, location)

RECURSIVE SortByRecency(_, _)
SortByRecency(g, S) ==
    IF S = {} THEN <<>>
    ELSE LET best == CHOOSE f \in S : \A o \in S :
                        \/ last_interaction_time(g.foods[f]) > last_interaction_time(g.foods[o])
                        \/ /\ last_interaction_time(g.foods[f]) = last_interaction_time(g.foods[o])
                           /\ f[3] <= o[3]
         IN <<best>> \o SortByRecency(g, S \ {best})

find_food(g, name_pattern, location) ==
    SortByRecency(g,
        { f \in FoodIds(g) :
            /\ Contains(g.foods[f].name, name_pattern)
            /\ location # None => location_matches(g, g.foods[f], location) })

match_existing(g, food_name, location) ==
    LET matching_foods == find_food(g, food_name, location)
        in_hand_foods  == find_food(g, food_name, None)
        all_matches    == in_hand_foods \o matching_foods
    IN IF all_matches = <<>> THEN NullId ELSE all_matches[1]

----------------------------------------------------------------------------
(* Context assembler *)

HistoryWindow == 2

\* mutant of RecentInteractions: the window is taken from the start of the history
RecentInteractions_oldest(h) ==
    IF Len(h) <= HistoryWindow THEN h
    ELSE SubSeq(h, 1, HistoryWindow)

RecentInteractions(h) ==
    IF Len(h) <= HistoryWindow THEN h
    ELSE SubSeq(h, Len(h) - HistoryWindow + 1, Len(h))

build_prompt(g, fid, n) ==
    [ node      |-> IF fid = NullId THEN <<"NO EXISTING FOOD NODE FOUND">>
                    ELSE <<fid, g.foods[fid].state, g.foods[fid].location,
                           Len(g.foods[fid].interaction_history)>>,
      recent    |-> IF fid = NullId THEN <<>>
                    ELSE RecentInteractions(g.foods[fid].interaction_history),
      narration |-> <<n.narration_id, n.video_id, n.start_time, n.end_time,
                      n.another>>,
      notes     |-> <<>> ]

add_note(p, why) == [p EXCEPT !.notes = Append(@, why)]

----------------------------------------------------------------------------
(* Oracle proposals and their validation *)

VALID_TYPES == {"CREATE_NEW", "TAKE", "PLACE", "MODIFY_STATE"}

\* the action verbs the oracle was seen to return in place of a type
ACTION_VERBS ==
    {"USE", "TILT", "MANIPULATE", "START", "UPDATE", "OPEN", "CLOSE", "TURN",
     "FLIP", "LIFT", "POUR", "ROTATE", "INTERACT"}

\* mutant of type_mapping: every type that is not valid becomes MODIFY_STATE
type_mapping_default(t) ==
    IF t \in VALID_TYPES THEN t ELSE "MODIFY_STATE"

type_mapping(t) ==
    IF t \in ACTION_VERBS THEN "MODIFY_STATE" ELSE t

GhostId == <<"food", "ghost", 0>>

\* a type that is neither valid nor an action verb of the table
UnknownVerb == "BLINK"

NoInfo == [present |-> FALSE, name |-> None]
Absent == [tag |-> "absent", val |-> None]
ToNull == [tag |-> "null", val |-> None]
ToName(z) == [tag |-> "name", val |-> z]
ToId(z) == [tag |-> "id", val |-> z]

\* a zone id the oracle made up, and the text it is written as
UnseenZoneId == <<"zone", "pantry", 9>>
IdText(z) == "zone_pantry_9"

Proposal(n, t, tgt, loc, full, echo, nfi) ==
    [ update_type    |-> t,
      target_food_id |-> tgt,
      updates        |-> [location |-> loc,
                          state |-> IF t \in {"MODIFY_STATE", "TURN"}
                                    THEN "opened" ELSE None],
      history_entry  |->
          [ complete   |-> full,
            start_time |-> IF echo THEN n.start_time ELSE 0,
            end_time   |-> IF echo THEN n.end_time ELSE 0,
            action     |-> "act",
            narration_text   |-> n.narration_id,
            location_context |-> extract_entities(n.nouns).location_entity ],
      new_food_info  |-> nfi ]

Named(n) == [present |-> TRUE, name |-> extract_entities(n.nouns).food_entity]
Nameless == [present |-> TRUE, name |-> None]

\* answers with every field in place: any kind the oracle may declare, on a
\* node of the graph or with the data of a new node, any location update,
\* times echoed from the narration or not
WellFormed(g, n) ==
    { Proposal(n, t, tgt, loc, TRUE, echo,
               IF tgt = NullId THEN Named(n) ELSE NoInfo) :
        t \in VALID_TYPES \cup {"TURN"},
        tgt \in FoodIds(g) \cup {NullId},
        loc \in {Absent, ToNull} \cup {ToName(z) : z \in LOCATION_KEYWORDS},
        echo \in BOOLEAN }

\* answers that may carry a defect: a kind outside the synonym table, a
\* target that is not in the graph, a history_entry with a field missing,
\* creation data without a name, with a target or missing
Defective(g, n) ==
    { Proposal(n, t, tgt, Absent, full, TRUE, nfi) :
        t \in VALID_TYPES \cup {"TURN", UnknownVerb},
        tgt \in FoodIds(g) \cup {NullId, GhostId},
        full \in BOOLEAN,
        nfi \in {NoInfo, Nameless, Named(n)} }

\* the name of the narration's food as the oracle may spell it
Capitalised(name) ==
    CASE name = "mug" -> "Mug"
      [] name = "milk" -> "Milk"
      [] OTHER -> name

\* answers that give the destination as a zone id, of the graph or made up,
\* and creations that spell the name of the food with a capital
Respelled(g, n) ==
    { Proposal(n, "PLACE", tgt, ToId(z), TRUE, TRUE,
               IF tgt = NullId THEN Named(n) ELSE NoInfo) :
        tgt \in FoodIds(g) \cup {NullId},
        z \in ZoneIds(g) \cup {UnseenZoneId} }
    \cup
    { Proposal(n, "CREATE_NEW", NullId, Absent, TRUE, TRUE,
               [present |-> TRUE,
                name |-> Capitalised(extract_entities(n.nouns).food_entity)]) }

\* what the oracle may answer for narration n on graph g
Proposals(g, n) == WellFormed(g, n) \cup Defective(g, n) \cup Respelled(g, n)

\* mutant of normalize: the declared type is mapped but never overridden
normalize_without_override(p) ==
    [p EXCEPT !.update_type = type_mapping(p.update_type)]

\* steps 1 and 2 of validate_update_command: normalisation and auto-correction
normalize(p) ==
    LET t1 == type_mapping(p.update_type)
        t2 == IF p.new_food_info.present /\ p.target_food_id = NullId
              THEN "CREATE_NEW" ELSE t1
    IN [p EXCEPT !.update_type = t2]

food_exists(g, fid) == fid \in FoodIds(g)

\* mutant of required_fields: history_entry is not looked at
required_fields_without_history(p) ==
    /\ p.update_type \in VALID_TYPES
    /\ p.update_type = "CREATE_NEW" =>
          p.new_food_info.present /\ p.new_food_info.name # None
    /\ p.update_type # "CREATE_NEW" => p.target_food_id # NullId

\* step 3 of validate_update_command, on a normalised proposal
required_fields(p) ==
    /\ p.update_type \in VALID_TYPES
    /\ p.history_entry.complete
    /\ p.update_type = "CREATE_NEW" =>
          p.new_food_info.present /\ p.new_food_info.name # None
    /\ p.update_type # "CREATE_NEW" => p.target_food_id # NullId

\* the required fields are there and the target, when one is needed, is a
\* node of the graph: what an answer must satisfy to be executed
validate_update_command(g, p) ==
    /\ required_fields(p)
    /\ p.update_type # "CREATE_NEW" => food_exists(g, p.target_food_id)

\* the deduplication check that is to follow validation: a CREATE_NEW that
\* duplicates a recent node of the same name and place becomes a MODIFY_STATE
\* of that node.  The pipeline does not run it (see ProposalApplied).
duplicates_of(g, p, n) ==
    { f \in FoodIds(g) :
        /\ Lower(g.foods[f].name) = Lower(p.new_food_info.name)
        /\ \/ LastRecord(g.foods[f]).location_context = p.history_entry.location_context
           \/ /\ g.foods[f].location # NullId
              /\ g.foods[f].location \in ZoneIds(g)
              /\ g.zones[g.foods[f].location].name = p.history_entry.location_context
        /\ \E t \in {g.foods[f].first_seen_time, last_interaction_time(g.foods[f])} :
              /\ t <= n.end_time
              /\ t >= n.start_time - DupWindow }

suppress_duplicate(g, p, n) ==
    IF p.update_type = "CREATE_NEW" /\ duplicates_of(g, p, n) # {}
    THEN [p EXCEPT !.update_type = "MODIFY_STATE",
                   !.target_food_id = SortByRecency(g, duplicates_of(g, p, n))[1]]
    ELSE p

----------------------------------------------------------------------------
(* Graph mutation engine: execute_kg_update *)


\* mutant of resolve_zone: a zone is added without looking for the name
resolve_zone_always_adds(g, name) ==
    add_zone(g, name)

\* name -> zone_id, creating the zone when the name is new
resolve_zone(g, name) ==
    IF get_zone_by_name(g, name) = NullId THEN add_zone(g, name) ELSE g

\* the zone name a location value of the oracle stands for: the text given,
\* for an id that is no key of zones as for a name
zone_name_of(loc) == IF loc.tag = "id" THEN IdText(loc.val) ELSE loc.val

\* the graph once the zone of a location value is there
ensure_zone(g, loc) ==
    IF loc.tag = "name" \/ (loc.tag = "id" /\ loc.val \notin ZoneIds(g))
    THEN resolve_zone(g, zone_name_of(loc))
    ELSE g

\* mutant of location_of: an id is stored as the oracle gave it
location_of_unresolved(g, loc) ==
    IF loc.tag = "name" THEN get_zone_by_name(resolve_zone(g, loc.val), loc.val)
    ELSE IF loc.tag = "id" THEN loc.val
    ELSE NullId

location_of(g, loc) ==
    IF loc.tag = "id" /\ loc.val \in ZoneIds(g) THEN loc.val
    ELSE IF loc.tag \in {"name", "id"}
         THEN get_zone_by_name(ensure_zone(g, loc), zone_name_of(loc))
    ELSE NullId

entry_of(p, n) ==
    [ start_time       |-> p.history_entry.start_time,
      end_time         |-> p.history_entry.end_time,
      action           |-> p.history_entry.action,
      narration_text   |-> p.history_entry.narration_text,
      location_context |-> p.history_entry.location_context,
      video_id         |-> n.video_id ]

update_food_node(g, fid, updates) ==
    LET g1 == ensure_zone(g, updates.location)
        g2 == IF updates.location.tag = "absent" THEN g1
              ELSE [g1 EXCEPT !.foods[fid].location = location_of(g1, updates.location)]
    IN IF updates.state = None THEN g2
       ELSE [g2 EXCEPT !.foods[fid].state = updates.state]

\* mutant of create_new: first_seen_time is taken from the narration row
create_new_row_time(g, p, n) ==
    LET g1  == ensure_zone(g, p.updates.location)
        fid == NewFoodId(g1, p.new_food_info.name)
        g2  == add_food_node(g1, p.new_food_info.name, "unknown", "unknown",
                             location_of(g1, p.updates.location),
                             n.start_time)
    IN add_interaction(g2, fid, entry_of(p, n))

\* mutant of create_new: without a location in the updates the node is put
\* in the zone location_context names
create_new_in_context(g, p, n) ==
    LET loc == IF p.updates.location.tag = "absent"
                  /\ p.history_entry.location_context # None
               THEN ToName(p.history_entry.location_context)
               ELSE p.updates.location
        g1  == ensure_zone(g, loc)
        fid == NewFoodId(g1, p.new_food_info.name)
        g2  == add_food_node(g1, p.new_food_info.name, "unknown", "unknown",
                             location_of(g1, loc),
                             p.history_entry.start_time)
    IN add_interaction(g2, fid, entry_of(p, n))

create_new(g, p, n) ==
    LET g1  == ensure_zone(g, p.updates.location)
        fid == NewFoodId(g1, p.new_food_info.name)
        g2  == add_food_node(g1, p.new_food_info.name, "unknown", "unknown",
                             location_of(g1, p.updates.location),
                             p.history_entry.start_time)
    IN add_interaction(g2, fid, entry_of(p, n))

\* mutant of update_existing: a command without updates records nothing
update_existing_skips_history(g, p, n) ==
    IF p.updates.location.tag = "absent" /\ p.updates.state = None THEN g
    ELSE add_interaction(update_food_node(g, p.target_food_id, p.updates),
                         p.target_food_id, entry_of(p, n))

update_existing(g, p, n) ==
    add_interaction(update_food_node(g, p.target_food_id, p.updates),
                    p.target_food_id, entry_of(p, n))

execute_kg_update(g, p, n) ==
    IF p.update_type = "CREATE_NEW" THEN create_new(g, p, n)
    ELSE update_existing(g, p, n)

----------------------------------------------------------------------------
(* Snapshot manager *)

\* mutant of SnapshotOf: the snapshot of a failed narration holds no graph
SnapshotOf_blank_on_failure(n, g, success, reason) ==
    [ snapshot_info |->
        [ narration_id |-> n.narration_id, video_id |-> n.video_id,
          start_time |-> n.start_time, end_time |-> n.end_time,
          update_success |-> success, reason |-> reason ],
      kg_state |-> IF success THEN g ELSE EmptyKG ]

SnapshotOf(n, g, success, reason) ==
    [ snapshot_info |->
        [ narration_id |-> n.narration_id, video_id |-> n.video_id,
          start_time |-> n.start_time, end_time |-> n.end_time,
          update_success |-> success, reason |-> reason ],
      kg_state |-> g ]

\* mutant of MetadataOf: num_zones counts the foods
MetadataOf_swapped(n, g, success) ==
    [ narration_id |-> n.narration_id, video_id |-> n.video_id,
      start_time |-> n.start_time, end_time |-> n.end_time,
      success |-> success,
      num_foods |-> Cardinality(FoodIds(g)),
      num_zones |-> Cardinality(FoodIds(g)) ]

MetadataOf(n, g, success) ==
    [ narration_id |-> n.narration_id, video_id |-> n.video_id,
      start_time |-> n.start_time, end_time |-> n.end_time,
      success |-> success,
      num_foods |-> Cardinality(FoodIds(g)),
      num_zones |-> Cardinality(ZoneIds(g)) ]

\* mutant of save_snapshot: the snapshots written so far share the live graph
save_snapshot_alias(snaps, n, g, success, reason) ==
    Append([i \in 1..Len(snaps) |-> [snaps[i] EXCEPT !.kg_state = g]],
           SnapshotOf(n, g, success, reason))

\* mutant of save_snapshot: the file holds the graph of the snapshot before
save_snapshot_stale(snaps, n, g, success, reason) ==
    Append(snaps, SnapshotOf(n, IF snaps = <<>> THEN EmptyKG
                                ELSE snaps[Len(snaps)].kg_state, success, reason))

save_snapshot(snaps, n, g, success, reason) ==
    Append(snaps, SnapshotOf(n, g, success, reason))

\* the write of the snapshot file as the orchestrator sees it: a write that
\* raises is logged and leaves no file
try_save_snapshot(snaps, n, g, success, reason) ==
    IF disk = "ok" THEN save_snapshot(snaps, n, g, success, reason) ELSE snaps

\* mutant of append_metadata: only successful narrations are indexed
append_metadata_success_only(idx, n, g, success) ==
    IF success THEN Append(idx, MetadataOf(n, g, success)) ELSE idx

append_metadata(idx, n, g, success) ==
    Append(idx, MetadataOf(n, g, success))

\* mutant of save_kg: the file is written after every row
save_kg_every_row(file, g, k) ==
    g

\* periodic save of the KG file after row number k
save_kg(file, g, k) ==
    IF k % SaveInterval = 0 THEN g ELSE file

----------------------------------------------------------------------------
(* Narration source: rows in time order within a video, videos in order *)

NoNarration ==
    [ narration_id |-> 0, video_id |-> Videos[1], start_time |-> 0,
      end_time |-> 0, nouns |-> <<>>, another |-> FALSE ]

\* the narration text says "another", "a second", "a third" of its food
Quantified(ns) ==
    IF extract_entities(ns).food_entity = None \/ processed = 0
    THEN {FALSE} ELSE BOOLEAN

\* the row after cur: the same video goes on (rows overlap by at most
\* Tolerance), or the next video starts at time 0
NextNarrations ==
    UNION { { [ narration_id |-> processed + 1, video_id |-> v, start_time |-> s,
                end_time |-> s + Duration, nouns |-> ns, another |-> a ] :
                v \in {Videos[1], Videos[2]},
                s \in {0, cur.end_time - Tolerance},
                a \in Quantified(ns) } :
            ns \in NounLists }

InOrder(n) ==
    \/ processed = 0 /\ n.video_id = Videos[1] /\ n.start_time = 0
    \/ processed > 0 /\ n.video_id = cur.video_id
                     /\ n.start_time = cur.end_time - Tolerance
    \/ processed > 0 /\ cur.video_id = Videos[1] /\ n.video_id = Videos[2]
                     /\ n.start_time = 0

----------------------------------------------------------------------------

\* no answer of the oracle has been accepted for the current narration
NoCommand == <<>>

\* the annotator before a file is loaded: useState initial values
AnnotatorUnloaded ==
    /\ data = <<>>
    /\ tasks = <<>>
    /\ currentTaskIndex = 0
    /\ selectedTasks = {}
    /\ mergeMode = FALSE
    /\ actionHistory = <<>>
    /\ nextMergedId = 1000
    /\ lastAction = "none"
    /\ tasksBefore = <<>>
    /\ isDragging = FALSE
    /\ dragType = "none"
    /\ dragStart = 0
    /\ listeners = <<>>

\* the visualizer before the directories are fetched: useState initial values
ViewerUnloaded ==
    /\ selectedSnapshotDir = ""
    /\ snapshotList = <<>>
    /\ currentSnapshotIndex = 0
    /\ currentSnapshot = NullId
    /\ inflight = {}
    /\ keyPressDir = ""

Init ==
    /\ kg = EmptyKG
    /\ persisted = EmptyKG
    /\ total \in 1..MaxNarrations
    /\ processed = 0
    /\ pc = "idle"
    /\ cur = NoNarration
    /\ existing = NullId
    /\ prompt = <<>>
    /\ sent = <<>>
    /\ fails = <<>>
    /\ applied = 0
    /\ kg_before = EmptyKG
    /\ llm_output = NoCommand
    /\ update_command = NoCommand
    /\ snapshots = <<>>
    /\ index = <<>>
    /\ restarts = 0
    /\ disk = "ok"
    /\ AnnotatorUnloaded
    /\ ViewerUnloaded

\* mutant of SkipNoFood: the zone the skipped narration names is created
SkipNoFood_CreatesZone ==
    /\ pc = "idle"
    /\ processed < total
    /\ \E n \in NextNarrations :
        /\ InOrder(n)
        /\ extract_entities(n.nouns).food_entity = None
        /\ cur' = n
        /\ existing' = NullId
        /\ prompt' = <<>>
        /\ sent' = <<>>
        /\ fails' = <<>>
        /\ applied' = 0
        /\ kg_before' = kg
        /\ llm_output' = NoCommand
        /\ update_command' = NoCommand
        /\ kg' = IF extract_entities(n.nouns).location_entity = None THEN kg
                 ELSE resolve_zone(kg, extract_entities(n.nouns).location_entity)
        /\ snapshots' = try_save_snapshot(snapshots, n, kg', FALSE, "NoFoodEntity")
        /\ index' = append_metadata(index, n, kg', FALSE)
        /\ processed' = processed + 1
        /\ persisted' = save_kg(persisted, kg', processed + 1)
        /\ UNCHANGED <<total, restarts, disk, annotator, viewer, pc>>

\* the resolver finds no food entity: the narration is skipped
SkipNoFood ==
    /\ pc = "idle"
    /\ processed < total
    /\ \E n \in NextNarrations :
        /\ InOrder(n)
        /\ extract_entities(n.nouns).food_entity = None
        /\ cur' = n
        /\ existing' = NullId
        /\ prompt' = <<>>
        /\ sent' = <<>>
        /\ fails' = <<>>
        /\ applied' = 0
        /\ kg_before' = kg
        /\ llm_output' = NoCommand
        /\ update_command' = NoCommand
        /\ kg' = kg
        /\ snapshots' = try_save_snapshot(snapshots, n, kg, FALSE, "NoFoodEntity")
        /\ index' = append_metadata(index, n, kg, FALSE)
        /\ processed' = processed + 1
        /\ persisted' = save_kg(persisted, kg, processed + 1)
        /\ UNCHANGED <<total, restarts, disk, annotator, viewer, pc>>

\* resolver, candidate matcher and context assembler, up to the first oracle call
BeginNarration ==
    /\ pc = "idle"
    /\ processed < total
    /\ \E n \in NextNarrations :
        /\ InOrder(n)
        /\ extract_entities(n.nouns).food_entity # None
        /\ LET ent == extract_entities(n.nouns)
               fid == match_existing(kg, ent.food_entity, ent.location_entity)
           IN /\ cur' = n
              /\ existing' = fid
              /\ prompt' = build_prompt(kg, fid, n)
        /\ sent' = <<>>
        /\ fails' = <<>>
        /\ applied' = 0
        /\ kg_before' = kg
        /\ llm_output' = NoCommand
        /\ update_command' = NoCommand
        /\ pc' = "calling"
        /\ UNCHANGED <<kg, persisted, total, restarts, disk, annotator, viewer, processed, snapshots, index>>

\* exhaustion reason, from the kind of the last failure
ReasonOf(kind) ==
    CASE kind = "unavailable" -> "OracleUnavailable"
      [] kind = "malformed"   -> "MalformedResponse"
      [] OTHER                -> "OracleValidationExhausted"

next_prompt(p, kind) ==
    IF kind = "unavailable" THEN p ELSE add_note(p, kind)

\* the narration is given up: failed snapshot, next row
GiveUp(kind) ==
    /\ prompt' = prompt
    /\ kg' = kg
    /\ snapshots' = try_save_snapshot(snapshots, cur, kg, FALSE, ReasonOf(kind))
    /\ index' = append_metadata(index, cur, kg, FALSE)
    /\ processed' = processed + 1
    /\ persisted' = save_kg(persisted, kg, processed + 1)
    /\ pc' = "idle"

\* mutant of AttemptFails: the zone of the narration is created before the retry
AttemptFails_TouchesGraph(kind) ==
    /\ sent' = Append(sent, prompt)
    /\ fails' = Append(fails, kind)
    /\ IF Len(fails) + 1 < MaxAttempts
       THEN /\ prompt' = next_prompt(prompt, kind)
            /\ kg' = resolve_zone(kg, extract_entities(cur.nouns).location_entity)
            /\ UNCHANGED <<persisted, processed, pc, snapshots, index>>
       ELSE GiveUp(kind)
    /\ UNCHANGED <<total, restarts, disk, annotator, viewer, cur, existing, applied, kg_before, llm_output,
                   update_command>>

\* mutant of AttemptFails: the snapshot of a given-up narration says success
AttemptFails_MarksSuccess(kind) ==
    /\ sent' = Append(sent, prompt)
    /\ fails' = Append(fails, kind)
    /\ IF Len(fails) + 1 < MaxAttempts
       THEN /\ prompt' = next_prompt(prompt, kind)
            /\ UNCHANGED <<kg, persisted, processed, pc, snapshots, index>>
       ELSE /\ prompt' = prompt
            /\ kg' = kg
            /\ snapshots' = try_save_snapshot(snapshots, cur, kg, TRUE, ReasonOf(kind))
            /\ index' = append_metadata(index, cur, kg, TRUE)
            /\ processed' = processed + 1
            /\ persisted' = save_kg(persisted, kg, processed + 1)
            /\ pc' = "idle"
    /\ UNCHANGED <<total, restarts, disk, annotator, viewer, cur, existing, applied, kg_before, llm_output,
                   update_command>>

\* mutant of AttemptFails: one attempt too many
AttemptFails_OneMore(kind) ==
    /\ sent' = Append(sent, prompt)
    /\ fails' = Append(fails, kind)
    /\ IF Len(fails) + 1 <= MaxAttempts
       THEN /\ prompt' = next_prompt(prompt, kind)
            /\ UNCHANGED <<kg, persisted, processed, pc, snapshots, index>>
       ELSE GiveUp(kind)
    /\ UNCHANGED <<total, restarts, disk, annotator, viewer, cur, existing, applied, kg_before, llm_output,
                   update_command>>

\* mutant of AttemptFails: giving up a narration ends the run
AttemptFails_Fatal(kind) ==
    /\ sent' = Append(sent, prompt)
    /\ fails' = Append(fails, kind)
    /\ IF Len(fails) + 1 < MaxAttempts
       THEN /\ prompt' = next_prompt(prompt, kind)
            /\ UNCHANGED <<kg, persisted, processed, pc, snapshots, index>>
       ELSE /\ prompt' = prompt
            /\ kg' = kg
            /\ snapshots' = try_save_snapshot(snapshots, cur, kg, FALSE, ReasonOf(kind))
            /\ index' = append_metadata(index, cur, kg, FALSE)
            /\ processed' = processed
            /\ persisted' = kg
            /\ pc' = "done"
    /\ UNCHANGED <<total, restarts, disk, annotator, viewer, cur, existing, applied, kg_before, llm_output,
                   update_command>>

\* one oracle attempt that fails with the given kind: retry, or give up
AttemptFails(kind) ==
    /\ sent' = Append(sent, prompt)
    /\ fails' = Append(fails, kind)
    /\ IF Len(fails) + 1 < MaxAttempts
       THEN /\ prompt' = next_prompt(prompt, kind)
            /\ UNCHANGED <<kg, persisted, processed, pc, snapshots, index>>
       ELSE GiveUp(kind)
    /\ UNCHANGED <<total, restarts, disk, annotator, viewer, cur, existing, applied, kg_before, llm_output,
                   update_command>>

OracleUnavailable ==
    /\ pc = "calling"
    /\ AttemptFails("unavailable")

OracleMalformed ==
    /\ pc = "calling"
    /\ AttemptFails("malformed")

ProposalRejected ==
    /\ pc = "calling"
    /\ \E p \in Proposals(kg, cur) :
        ~validate_update_command(kg, normalize(p))
    /\ AttemptFails("invalid")

\* mutant of ProposalApplied: the update is undone when the snapshot write fails
ProposalApplied_RollsBack ==
    /\ pc = "calling"
    /\ \E p \in Proposals(kg, cur) :
        /\ validate_update_command(kg, normalize(p))
        /\ LET q  == normalize(p)
               g2 == IF disk = "ok" THEN execute_kg_update(kg, q, cur) ELSE kg
           IN /\ llm_output' = p
              /\ update_command' = q
              /\ kg' = g2
              /\ snapshots' = try_save_snapshot(snapshots, cur, g2, TRUE, "ok")
              /\ index' = append_metadata(index, cur, g2, TRUE)
              /\ persisted' = save_kg(persisted, g2, processed + 1)
    /\ sent' = Append(sent, prompt)
    /\ applied' = applied + 1
    /\ processed' = processed + 1
    /\ pc' = "idle"
    /\ UNCHANGED <<total, restarts, disk, annotator, viewer, cur, existing, prompt, fails, kg_before>>

ProposalApplied ==
    /\ pc = "calling"
    /\ \E p \in Proposals(kg, cur) :
        /\ validate_update_command(kg, normalize(p))
        /\ LET q  == normalize(p)
               g2 == execute_kg_update(kg, q, cur)
           IN /\ llm_output' = p
              /\ update_command' = q
              /\ kg' = g2
              /\ snapshots' = try_save_snapshot(snapshots, cur, g2, TRUE, "ok")
              /\ index' = append_metadata(index, cur, g2, TRUE)
              /\ persisted' = save_kg(persisted, g2, processed + 1)
    /\ sent' = Append(sent, prompt)
    /\ applied' = applied + 1
    /\ processed' = processed + 1
    /\ pc' = "idle"
    /\ UNCHANGED <<total, restarts, disk, annotator, viewer, cur, existing, prompt, fails, kg_before>>

\* end of the input: final save of the KG file
Finish ==
    /\ pc = "idle"
    /\ processed = total
    /\ persisted' = kg
    /\ pc' = "done"
    /\ UNCHANGED <<kg, total, restarts, disk, annotator, viewer, processed, cur, existing, prompt, sent, fails,
                   applied, kg_before, llm_output, update_command, snapshots,
                   index>>

Next ==
    \/ SkipNoFood
    \/ BeginNarration
    \/ OracleUnavailable
    \/ OracleMalformed
    \/ ProposalRejected
    \/ ProposalApplied
    \/ Finish

Spec == Init /\ [][Next]_vars

\* the i-th record of the history of a node of a KG file written by an earlier run
StoredRecord(i) ==
    [ start_time |-> i - 1, end_time |-> i, action |-> "act",
      narration_text |-> i, location_context |-> "fridge",
      video_id |-> Videos[1] ]

\* a KG file of an earlier run: one held mug with k interaction records
RECURSIVE StoredGraph(_)
StoredGraph(k) ==
    IF k = 1
    THEN add_interaction(add_food_node(EmptyKG, "mug", "unknown", "unknown", NullId, 0),
                         NewFoodId(EmptyKG, "mug"), StoredRecord(1))
    ELSE add_interaction(StoredGraph(k - 1), NewFoodId(EmptyKG, "mug"), StoredRecord(k))

\* start of a run on the KG file of an earlier run (--kg), one row to process
LoadedInit ==
    /\ \E k \in 1..MaxHistory : kg = StoredGraph(k)
    /\ persisted = kg
    /\ kg_before = kg
    /\ total = 1
    /\ processed = 0
    /\ pc = "idle"
    /\ cur = NoNarration
    /\ existing = NullId
    /\ prompt = <<>>
    /\ sent = <<>>
    /\ fails = <<>>
    /\ applied = 0
    /\ llm_output = NoCommand
    /\ update_command = NoCommand
    /\ snapshots = <<>>
    /\ index = <<>>
    /\ restarts = 0
    /\ disk = "ok"
    /\ AnnotatorUnloaded
    /\ ViewerUnloaded

\* the run on a loaded graph
LoadedSpec == LoadedInit /\ [][Next]_vars

\* the index of the last periodic save at or before row k
Checkpoint(k) == (k \div SaveInterval) * SaveInterval

\* the position in the CSV after row k, as far as the order of rows depends on it
RowAt(snaps, k) ==
    IF k = 0 THEN NoNarration
    ELSE [ narration_id |-> snaps[k].snapshot_info.narration_id,
           video_id     |-> snaps[k].snapshot_info.video_id,
           start_time   |-> snaps[k].snapshot_info.start_time,
           end_time     |-> snaps[k].snapshot_info.end_time,
           nouns        |-> <<>>,
           another      |-> FALSE ]

\* the run is aborted and started again with --kg on the saved file and
\* --start at the last periodic save: the rows after it are read again
AbortAndRestart ==
    /\ pc # "done"
    /\ restarts < MaxRestarts
    /\ LET c == Checkpoint(processed)
       IN /\ kg' = persisted
          /\ kg_before' = persisted
          /\ processed' = c
          /\ cur' = RowAt(snapshots, c)
          /\ snapshots' = SubSeq(snapshots, 1, c)
          /\ index' = SubSeq(index, 1, c)
    /\ pc' = "idle"
    /\ existing' = NullId
    /\ prompt' = <<>>
    /\ sent' = <<>>
    /\ fails' = <<>>
    /\ applied' = 0
    /\ llm_output' = NoCommand
    /\ update_command' = NoCommand
    /\ restarts' = restarts + 1
    /\ UNCHANGED <<persisted, total, disk, annotator, viewer>>

RestartNext ==
    \/ Next
    \/ AbortAndRestart

\* the run with aborts and restarts from the last periodic save
RestartSpec == Init /\ [][RestartNext]_vars

\* the snapshot directory stops and resumes taking writes between rows
DiskFails ==
    /\ pc = "idle"
    /\ processed < total
    /\ disk = "ok"
    /\ disk' = "failing"
    /\ UNCHANGED <<kg, persisted, total, processed, pc, cur, existing, prompt,
                   sent, fails, applied, kg_before, llm_output, update_command,
                   snapshots, index, restarts, annotator, viewer>>

DiskRecovers ==
    /\ pc = "idle"
    /\ processed < total
    /\ disk = "failing"
    /\ disk' = "ok"
    /\ UNCHANGED <<kg, persisted, total, processed, pc, cur, existing, prompt,
                   sent, fails, applied, kg_before, llm_output, update_command,
                   snapshots, index, restarts, annotator, viewer>>

LossyNext ==
    \/ Next
    \/ DiskFails
    \/ DiskRecovers

\* the run on a snapshot directory whose writes may fail
LossySpec == Init /\ [][LossyNext]_vars

----------------------------------------------------------------------------
(* The annotators: AIAssistedAnnotator.jsx, OutputEditAnnotator.jsx *)

\* everything the pipeline owns; the annotators and the visualizer are
\* separate front ends and leave it alone
pipeline == <<kg, persisted, total, processed, pc, cur, existing, prompt, sent,
              fails, applied, kg_before, llm_output, update_command, snapshots,
              index, restarts, disk>>

\* the pipeline at rest while a front end runs
PipelineIdle ==
    /\ kg = EmptyKG
    /\ persisted = EmptyKG
    /\ total = 1
    /\ processed = 0
    /\ pc = "idle"
    /\ cur = NoNarration
    /\ existing = NullId
    /\ prompt = <<>>
    /\ sent = <<>>
    /\ fails = <<>>
    /\ applied = 0
    /\ kg_before = EmptyKG
    /\ llm_output = NoCommand
    /\ update_command = NoCommand
    /\ snapshots = <<>>
    /\ index = <<>>
    /\ restarts = 0
    /\ disk = "ok"

\* Times are counted in tenths of a second.
\* the keyboard step of adjustStartTime / adjustEndTime: 1 second
KeyStep == 10
\* the gap a drag on the timeline keeps between start and end: 0.1 second
DragGap == 1
\* useState(1000): the number of the first merged id
FirstMergedId == 1000
\* saveActionToHistory keeps the last 10 actions
HistoryCap == 10

\* merged ids handed out in a session
MaxMerges == 2
\* length of the video of a timing session, in tenths of a second
VideoDuration == 10
\* the latest time the keys are followed to
MaxTime == 10
\* mousemove listeners registered at a time
MaxListeners == 2
\* the times the mouse is moved to, and the distances it is dragged by
MouseTimes == {0, 5}

\* DataLoader: the task built for one interaction of the input file.
\* originalTasks is null for it; <<>> stands for null.
LoadedTask(r) ==
    [id |-> r.id, startTime |-> r.startTime, endTime |-> r.endTime,
     status |-> "pending", isMerged |-> FALSE, mergeCount |-> 1,
     originalIds |-> <<r.id>>, originalTasks |-> <<>>]

\* the input files: interactions 1..3 as the file lists them; in the first
\* two of them start at the same time
InputFiles ==
    { << [id |-> 3, startTime |-> 10, endTime |-> 20],
         [id |-> 1, startTime |-> 0, endTime |-> 10],
         [id |-> 2, startTime |-> 0, endTime |-> 20] >>,
      << [id |-> 2, startTime |-> 10, endTime |-> 20],
         [id |-> 1, startTime |-> 0, endTime |-> 10],
         [id |-> 3, startTime |-> 20, endTime |-> 30] >> }

\* the input files of the timing sessions: a video of one second
ShortFiles ==
    { << [id |-> 1, startTime |-> 0, endTime |-> 10] >>,
      << [id |-> 1, startTime |-> 2, endTime |-> 8] >> }

\* q.sort((a, b) => a.startTime - b.startTime): Array.prototype.sort is stable
RECURSIVE SortByStartTime(_)
SortByStartTime(q) ==
    IF q = <<>> THEN <<>>
    ELSE LET front == SortByStartTime(SubSeq(q, 1, Len(q) - 1))
             t == q[Len(q)]
             k == Cardinality({i \in 1..Len(front) :
                                  front[i].startTime <= t.startTime})
         IN SubSeq(front, 1, k) \o <<t>> \o SubSeq(front, k + 1, Len(front))

\* the ids of the tasks of a list
TaskIds(q) == {q[i].id : i \in 1..Len(q)}

\* q.flatMap(t => t.originalIds || [t.id])
RECURSIVE FlatOriginalIds(_)
FlatOriginalIds(q) ==
    IF q = <<>> THEN <<>>
    ELSE (IF Head(q).originalIds # <<>> THEN Head(q).originalIds
          ELSE <<Head(q).id>>) \o FlatOriginalIds(Tail(q))

\* calculateTimestampUnion
calculateTimestampUnion(q) ==
    [startTime |-> CHOOSE m \in {q[i].startTime : i \in 1..Len(q)} :
                       \A i \in 1..Len(q) : m <= q[i].startTime,
     endTime |-> CHOOSE m \in {q[i].endTime : i \in 1..Len(q)} :
                       \A i \in 1..Len(q) : m >= q[i].endTime]

\* saveActionToHistory: [...prev.slice(-9), action]
saveActionToHistory(h, action) ==
    (IF Len(h) > HistoryCap - 1
     THEN SubSeq(h, Len(h) - (HistoryCap - 2), Len(h)) ELSE h) \o <<action>>

\* handleTaskUpdate: the task of that id is replaced
handleTaskUpdate(q, updatedTask) ==
    [i \in 1..Len(q) |-> IF q[i].id = updatedTask.id THEN updatedTask ELSE q[i]]

\* tasks[currentTaskIndex], when there is one
HasCurrentTask == currentTaskIndex >= 0 /\ currentTaskIndex < Len(tasks)
CurrentTask == tasks[currentTaskIndex + 1]

\* mutant of autoAcceptCurrentTask: the task left is accepted whatever its status
autoAcceptCurrentTask_any ==
    IF HasCurrentTask
    THEN handleTaskUpdate(tasks, [CurrentTask EXCEPT !.status = "accepted"])
    ELSE tasks

\* autoAcceptCurrentTask: the list after it
autoAcceptCurrentTask ==
    IF HasCurrentTask /\ CurrentTask.status = "pending"
    THEN handleTaskUpdate(tasks, [CurrentTask EXCEPT !.status = "accepted"])
    ELSE tasks

\* the merged ids a session may still hand out
MergeBudgetLeft ==
    nextMergedId < FirstMergedId + MaxMerges

\* what a handler that restructures the list (merge, unmerge, undo) records
\* and leaves alone
Handled(name) ==
    /\ lastAction' = name
    /\ tasksBefore' = tasks
    /\ UNCHANGED <<pipeline, viewer, timeline>>

\* what any other handler records and leaves alone
Plain(name) ==
    /\ lastAction' = name
    /\ tasksBefore' = <<>>
    /\ UNCHANGED <<pipeline, viewer, timeline>>

\* handleDataLoad: the tasks of the file, sorted by start time, the first one
\* current
handleDataLoad(file) ==
    /\ data = <<>>
    /\ data' = file
    /\ tasks' = SortByStartTime([i \in 1..Len(file) |-> LoadedTask(file[i])])
    /\ currentTaskIndex' = 0
    /\ UNCHANGED <<selectedTasks, mergeMode, actionHistory, nextMergedId>>
    /\ Plain("load")

\* jumpToTask(taskIndex): control panel, click in the queue outside merge mode
jumpToTask(taskIndex) ==
    /\ data # <<>>
    /\ IF taskIndex >= 0 /\ taskIndex < Len(tasks)
       THEN /\ tasks' = (IF taskIndex # currentTaskIndex
                         THEN autoAcceptCurrentTask ELSE tasks)
            /\ currentTaskIndex' = taskIndex
       ELSE UNCHANGED <<tasks, currentTaskIndex>>
    /\ UNCHANGED <<data, selectedTasks, mergeMode, actionHistory, nextMergedId>>
    /\ Plain(IF taskIndex >= 0 /\ taskIndex < Len(tasks)
             THEN "jump" ELSE "jumpOutside")

\* handleNext: ArrowRight
handleNext ==
    /\ data # <<>>
    /\ IF currentTaskIndex < Len(tasks) - 1
       THEN /\ tasks' = autoAcceptCurrentTask
            /\ currentTaskIndex' = currentTaskIndex + 1
       ELSE UNCHANGED <<tasks, currentTaskIndex>>
    /\ UNCHANGED <<data, selectedTasks, mergeMode, actionHistory, nextMergedId>>
    /\ Plain("next")

\* handlePrevious: ArrowLeft
handlePrevious ==
    /\ data # <<>>
    /\ IF currentTaskIndex > 0
       THEN /\ tasks' = (IF currentTaskIndex - 1 < Len(tasks)
                         THEN autoAcceptCurrentTask ELSE tasks)
            /\ currentTaskIndex' =
                   (IF currentTaskIndex - 1 < Len(tasks)
                    THEN currentTaskIndex - 1 ELSE currentTaskIndex)
       ELSE UNCHANGED <<tasks, currentTaskIndex>>
    /\ UNCHANGED <<data, selectedTasks, mergeMode, actionHistory, nextMergedId>>
    /\ Plain("previous")

\* keys 'a' and 'r': the current task is accepted or rejected
setStatus(status) ==
    /\ data # <<>>
    /\ IF HasCurrentTask /\ CurrentTask.status # status
       THEN tasks' = handleTaskUpdate(tasks, [CurrentTask EXCEPT !.status = status])
       ELSE UNCHANGED tasks
    /\ UNCHANGED <<data, currentTaskIndex, selectedTasks, mergeMode,
                   actionHistory, nextMergedId>>
    /\ Plain(status)

\* toggleMergeMode: leaving merge mode clears the selection
toggleMergeMode ==
    /\ data # <<>>
    /\ mergeMode' = ~mergeMode
    /\ selectedTasks' = (IF mergeMode THEN {} ELSE selectedTasks)
    /\ UNCHANGED <<data, tasks, currentTaskIndex, actionHistory, nextMergedId>>
    /\ Plain("toggleMergeMode")

\* toggleTaskSelection(taskId): click on a task of the queue in merge mode
toggleTaskSelection(taskId) ==
    /\ data # <<>>
    /\ mergeMode
    /\ taskId \in TaskIds(tasks)
    /\ selectedTasks' = (IF taskId \in selectedTasks
                         THEN selectedTasks \ {taskId}
                         ELSE selectedTasks \cup {taskId})
    /\ UNCHANGED <<data, tasks, currentTaskIndex, mergeMode, actionHistory,
                   nextMergedId>>
    /\ Plain("toggleTaskSelection")

\* the task mergeSelectedTasks builds
MergedTaskOf(tasksToMerge, id) ==
    [id |-> id,
     startTime |-> calculateTimestampUnion(tasksToMerge).startTime,
     endTime |-> calculateTimestampUnion(tasksToMerge).endTime,
     status |-> "pending", isMerged |-> TRUE,
     mergeCount |-> Len(tasksToMerge),
     originalIds |-> FlatOriginalIds(tasksToMerge),
     originalTasks |-> tasksToMerge]

\* mergeSelectedTasks: Merge button, Enter.  When no selected id is in the
\* list any more, tasksToMerge[0].description throws after generateMergedId.
mergeSelectedTasks ==
    /\ data # <<>>
    /\ MergeBudgetLeft
    /\ LET tasksToMerge == SelectSeq(tasks, LAMBDA t : t.id \in selectedTasks)
           mergedTask == MergedTaskOf(tasksToMerge, nextMergedId)
       IN IF Cardinality(selectedTasks) < 2
          THEN UNCHANGED <<tasks, selectedTasks, mergeMode, actionHistory,
                           nextMergedId>>
          ELSE IF tasksToMerge = <<>>
          THEN /\ nextMergedId' = nextMergedId + 1
               /\ UNCHANGED <<tasks, selectedTasks, mergeMode, actionHistory>>
          ELSE /\ nextMergedId' = nextMergedId + 1
               /\ actionHistory' = saveActionToHistory(actionHistory,
                      [type |-> "merge", mergedTask |-> mergedTask,
                       originalTasks |-> tasksToMerge])
               /\ tasks' = SortByStartTime(
                      SelectSeq(tasks, LAMBDA t : t.id \notin selectedTasks)
                      \o <<mergedTask>>)
               /\ selectedTasks' = {}
               /\ mergeMode' = FALSE
    /\ UNCHANGED <<data, currentTaskIndex>>
    /\ Handled("merge")

\* the single task unmergeSubEvent makes of a sub-event
Unmerged(sub) ==
    [sub EXCEPT !.id = (IF sub.originalIds # <<>> THEN sub.originalIds[1]
                        ELSE sub.id),
                !.isMerged = FALSE,
                !.status = "pending"]

\* s without its element at position k
DropAt(s, k) == SubSeq(s, 1, k - 1) \o SubSeq(s, k + 1, Len(s))

\* unmergeSubEvent(mergedTask, subEventIndex): the Unmerge button of a
\* sub-event of a merged task of the queue
unmergeSubEvent(mergedTask, subEventIndex) ==
    /\ data # <<>>
    /\ Len(mergedTask.originalTasks) > 2 => MergeBudgetLeft
    /\ IF mergedTask.originalTasks = <<>>
          \/ subEventIndex >= Len(mergedTask.originalTasks)
       THEN UNCHANGED <<tasks, actionHistory, nextMergedId>>
       ELSE LET sub == mergedTask.originalTasks[subEventIndex + 1]
                remaining == DropAt(mergedTask.originalTasks, subEventIndex + 1)
                others == SelectSeq(tasks, LAMBDA t : t.id # mergedTask.id)
                newMergedTask ==
                    [mergedTask EXCEPT
                        !.id = nextMergedId,
                        !.startTime = calculateTimestampUnion(remaining).startTime,
                        !.endTime = calculateTimestampUnion(remaining).endTime,
                        !.mergeCount = Len(remaining),
                        !.originalIds = FlatOriginalIds(remaining),
                        !.originalTasks = remaining]
            IN /\ actionHistory' = saveActionToHistory(actionHistory,
                      [type |-> "unmerge_sub",
                       originalMergedTask |-> mergedTask,
                       unmergedTask |-> sub])
               /\ tasks' = SortByStartTime(
                      others \o <<Unmerged(sub)>> \o
                      (IF Len(remaining) > 1 THEN <<newMergedTask>>
                       ELSE IF Len(remaining) = 1 THEN <<Unmerged(remaining[1])>>
                       ELSE <<>>))
               /\ nextMergedId' = (IF Len(remaining) > 1 THEN nextMergedId + 1
                                   ELSE nextMergedId)
    /\ UNCHANGED <<data, currentTaskIndex, selectedTasks, mergeMode>>
    /\ Handled("unmerge")

\* a and b have an element in common
Intersects(a, b) == \E i \in 1..Len(a) : \E j \in 1..Len(b) : a[i] = b[j]

\* undoLastAction: Undo button, Ctrl+Z
undoLastAction ==
    /\ data # <<>>
    /\ IF actionHistory = <<>>
       THEN UNCHANGED <<tasks, actionHistory>>
       ELSE LET last == actionHistory[Len(actionHistory)]
            IN /\ tasks' =
                    (IF last.type = "merge"
                     THEN SortByStartTime(
                              SelectSeq(tasks, LAMBDA t : t.id # last.mergedTask.id)
                              \o last.originalTasks)
                     ELSE SortByStartTime(
                              SelectSeq(tasks, LAMBDA t :
                                  /\ t.id # last.unmergedTask.id
                                  /\ ~Intersects(t.originalIds,
                                         last.originalMergedTask.originalIds))
                              \o <<last.originalMergedTask>>))
               /\ actionHistory' = SubSeq(actionHistory, 1, Len(actionHistory) - 1)
    /\ UNCHANGED <<data, currentTaskIndex, selectedTasks, mergeMode, nextMergedId>>
    /\ Handled("undo")

\* adjustStartTime(delta): keys q and w.  No upper limit in the code; the
\* model stops at MaxTime.
adjustStartTime(delta) ==
    /\ data # <<>>
    /\ HasCurrentTask => CurrentTask.startTime + delta <= MaxTime
    /\ IF HasCurrentTask
       THEN tasks' = handleTaskUpdate(tasks,
                [CurrentTask EXCEPT !.startTime =
                    IF CurrentTask.startTime + delta > 0
                    THEN CurrentTask.startTime + delta ELSE 0])
       ELSE UNCHANGED tasks
    /\ UNCHANGED <<data, currentTaskIndex, selectedTasks, mergeMode,
                   actionHistory, nextMergedId>>
    /\ Plain("adjustStartTime")

\* adjustEndTime(delta): keys z and x
adjustEndTime(delta) ==
    /\ data # <<>>
    /\ HasCurrentTask => CurrentTask.endTime + delta <= MaxTime
    /\ IF HasCurrentTask
       THEN tasks' = handleTaskUpdate(tasks,
                [CurrentTask EXCEPT !.endTime =
                    IF CurrentTask.endTime + delta > 0
                    THEN CurrentTask.endTime + delta ELSE 0])
       ELSE UNCHANGED tasks
    /\ UNCHANGED <<data, currentTaskIndex, selectedTasks, mergeMode,
                   actionHistory, nextMergedId>>
    /\ Plain("adjustEndTime")

\* the larger and the smaller of two numbers
MathMax(a, b) == IF a >= b THEN a ELSE b
MathMin(a, b) == IF a <= b THEN a ELSE b

\* what the annotator handlers leave alone when the Timeline handles the mouse
TimelineFrame ==
    UNCHANGED <<pipeline, viewer, data, currentTaskIndex, selectedTasks,
                mergeMode, actionHistory, nextMergedId>>

\* Timeline.handleMouseDown(e, type): the handleMouseMove of the present render
\* is registered on the document, then the drag state is set.  A listener of a
\* render in which no drag was going on returns at once and never reads its
\* task and dragStart, which are left out for it.
handleMouseDown(type) ==
    /\ data # <<>>
    /\ HasCurrentTask
    /\ Len(listeners) < MaxListeners
    /\ listeners' = Append(listeners,
           [isDragging |-> isDragging, dragType |-> dragType,
            task |-> IF isDragging THEN CurrentTask ELSE NullId,
            dragStart |-> IF isDragging THEN dragStart ELSE 0])
    /\ isDragging' = TRUE
    /\ dragType' = type
    /\ dragStart' = (IF type = "start" THEN CurrentTask.startTime
                     ELSE CurrentTask.endTime)
    /\ UNCHANGED tasks
    /\ lastAction' = "mouseDown"
    /\ tasksBefore' = <<>>
    /\ TimelineFrame

\* the task one registered handleMouseMove passes to onTaskUpdate for a mouse
\* at time newTime, dragged by deltaTime; c holds the values of its render
Dragged(c, newTime, deltaTime) ==
    IF c.dragType = "start"
    THEN [c.task EXCEPT !.startTime =
             MathMax(0, MathMin(newTime, c.task.endTime - DragGap))]
    ELSE IF c.dragType = "end"
    THEN [c.task EXCEPT !.endTime =
             MathMax(c.task.startTime + DragGap, MathMin(newTime, VideoDuration))]
    ELSE LET duration == c.task.endTime - c.task.startTime
             newStartTime == MathMin(MathMax(0, c.dragStart + deltaTime),
                                     VideoDuration - duration)
         IN [c.task EXCEPT !.startTime = newStartTime,
                           !.endTime = newStartTime + duration]

\* the list after the registered listeners have run, in order, on one event
RECURSIVE RunListeners(_, _, _, _)
RunListeners(q, ls, newTime, deltaTime) ==
    IF ls = <<>> THEN q
    ELSE RunListeners(
             IF Head(ls).isDragging
             THEN handleTaskUpdate(q, Dragged(Head(ls), newTime, deltaTime))
             ELSE q,
             Tail(ls), newTime, deltaTime)

\* a mousemove on the document: every registered handleMouseMove runs.  A
\* move of a task whose end is before its start can push the times off without
\* limit; the model stops at MaxTime on either side.
handleMouseMove(newTime, deltaTime) ==
    /\ data # <<>>
    /\ listeners # <<>>
    /\ tasks' = RunListeners(tasks, listeners, newTime, deltaTime)
    /\ \A i \in 1..Len(tasks') :
          /\ tasks'[i].startTime \in -MaxTime..(VideoDuration + MaxTime)
          /\ tasks'[i].endTime \in -MaxTime..(VideoDuration + MaxTime)
    /\ UNCHANGED timeline
    /\ lastAction' = "mouseMove"
    /\ tasksBefore' = <<>>
    /\ TimelineFrame

\* a mouseup on the document: every registered handleMouseUp runs
handleMouseUp ==
    /\ data # <<>>
    /\ listeners # <<>>
    /\ isDragging' = FALSE
    /\ dragType' = "none"
    /\ listeners' = <<>>
    /\ UNCHANGED <<tasks, dragStart>>
    /\ lastAction' = "mouseUp"
    /\ tasksBefore' = <<>>
    /\ TimelineFrame

\* the unloaded annotator
AnnotatorInit == PipelineIdle /\ AnnotatorUnloaded /\ ViewerUnloaded

\* the Unmerge buttons the queue shows: one per sub-event of a merged task
\* with more than one
UnmergeButtons ==
    {<<tasks[i], k>> : i \in {j \in 1..Len(tasks) :
                                 tasks[j].isMerged /\ Len(tasks[j].originalTasks) > 1},
                       k \in 0..2}

\* a session of merging: load, next task, selection, merge, unmerge, undo
MergeNext ==
    \/ \E file \in InputFiles : handleDataLoad(file)
    \/ handleNext
    \/ toggleMergeMode
    \/ \E taskId \in TaskIds(tasks) : toggleTaskSelection(taskId)
    \/ mergeSelectedTasks
    \/ \E b \in UnmergeButtons : unmergeSubEvent(b[1], b[2])
    \/ undoLastAction

MergeSpec == AnnotatorInit /\ [][MergeNext]_vars

\* a session of review: load, navigation, accept and reject
ReviewNext ==
    \/ \E file \in InputFiles : handleDataLoad(file)
    \/ \E taskIndex \in -1..Len(tasks) : jumpToTask(taskIndex)
    \/ handleNext
    \/ handlePrevious
    \/ \E status \in {"accepted", "rejected"} : setStatus(status)

ReviewSpec == AnnotatorInit /\ [][ReviewNext]_vars

\* a session of timing: load, keys q w z x, drags on the timeline
TimingNext ==
    \/ \E file \in ShortFiles : handleDataLoad(file)
    \/ \E delta \in {-KeyStep, KeyStep} : adjustStartTime(delta)
    \/ \E delta \in {-KeyStep, KeyStep} : adjustEndTime(delta)
    \/ \E type \in {"start", "end", "move"} : handleMouseDown(type)
    \/ \E newTime \in MouseTimes : \E deltaTime \in MouseTimes :
          handleMouseMove(newTime, deltaTime)
    \/ handleMouseUp

TimingSpec == AnnotatorInit /\ [][TimingNext]_vars

----------------------------------------------------------------------------
(* The visualizer: KGVisualizer.jsx *)

\* fetches in flight at a time
MaxInflight == 2

\* the backend: the snapshot directories and the narration ids in the
\* metadata of each
ServerDirs == <<"run1", "run2", "empty">>
ServerMetadata(dir) ==
    IF dir = "run1" THEN <<1, 2, 3>>
    ELSE IF dir = "run2" THEN <<1, 2>>
    ELSE <<>>

\* the snapshot file of a narration of a directory
ServerSnapshot(dir, narrationId) == <<dir, narrationId>>

\* the body of an answer for a snapshot the directory does not have
ServerError == <<"error">>

\* the requests
DirectoriesRequest == [kind |-> "directories"]
MetadataRequest(dir) == [kind |-> "metadata", dir |-> dir]
SnapshotRequest(dir, narrationId) ==
    [kind |-> "snapshot", dir |-> dir, narrationId |-> narrationId]

\* fetch(url): a request equal to one in flight is answered with it
Fetch(reqs, req) == reqs \cup {req}

\* what the visualizer leaves alone
ViewerFrame == UNCHANGED <<pipeline, annotator>>

\* the visualizer mounted: the directories are being fetched
ViewerInit ==
    /\ PipelineIdle
    /\ AnnotatorUnloaded
    /\ selectedSnapshotDir = ""
    /\ snapshotList = <<>>
    /\ currentSnapshotIndex = 0
    /\ currentSnapshot = NullId
    /\ inflight = {DirectoriesRequest}
    /\ keyPressDir = ""

\* the answer to the fetch of the mount effect: the first directory is
\* selected, which starts the effect on selectedSnapshotDir
DirectoriesLoaded ==
    /\ DirectoriesRequest \in inflight
    /\ selectedSnapshotDir' = (IF selectedSnapshotDir = "" THEN ServerDirs[1]
                               ELSE selectedSnapshotDir)
    /\ inflight' = (IF selectedSnapshotDir = ""
                    THEN Fetch(inflight \ {DirectoriesRequest},
                               MetadataRequest(ServerDirs[1]))
                    ELSE inflight \ {DirectoriesRequest})
    /\ UNCHANGED <<snapshotList, currentSnapshotIndex, currentSnapshot, keyPressDir>>
    /\ ViewerFrame

\* the select box: setSelectedSnapshotDir(e.target.value); a new value starts
\* the effect that fetches the metadata
SelectDirectory(dir) ==
    /\ DirectoriesRequest \notin inflight
    /\ dir # selectedSnapshotDir
    /\ Cardinality(inflight) < MaxInflight
    /\ selectedSnapshotDir' = dir
    /\ inflight' = Fetch(inflight, MetadataRequest(dir))
    /\ UNCHANGED <<snapshotList, currentSnapshotIndex, currentSnapshot, keyPressDir>>
    /\ ViewerFrame

\* the answer to a metadata fetch: the list is replaced; the index is reset
\* and the first snapshot fetched only if the list is not empty.  The
\* loadSnapshot called is the one of the render that started the effect.
MetadataLoaded(req) ==
    /\ req \in inflight
    /\ req.kind = "metadata"
    /\ LET list == ServerMetadata(req.dir)
       IN /\ snapshotList' = list
          /\ IF list # <<>>
             THEN /\ currentSnapshotIndex' = 0
                  /\ inflight' = Fetch(inflight \ {req},
                                       SnapshotRequest(req.dir, list[1]))
             ELSE /\ UNCHANGED currentSnapshotIndex
                  /\ inflight' = inflight \ {req}
    /\ keyPressDir' = selectedSnapshotDir
    /\ UNCHANGED <<selectedSnapshotDir, currentSnapshot>>
    /\ ViewerFrame

\* goToSnapshot(index) as defined by a render in which the directory is dir
goToSnapshot(idx, dir) ==
    /\ DirectoriesRequest \notin inflight
    /\ Cardinality(inflight) < MaxInflight
    /\ IF idx >= 0 /\ idx < Len(snapshotList)
       THEN /\ currentSnapshotIndex' = idx
            /\ inflight' = Fetch(inflight, SnapshotRequest(dir, snapshotList[idx + 1]))
            /\ keyPressDir' = (IF idx # currentSnapshotIndex
                               THEN selectedSnapshotDir ELSE keyPressDir)
       ELSE UNCHANGED <<currentSnapshotIndex, inflight, keyPressDir>>
    /\ UNCHANGED <<selectedSnapshotDir, snapshotList, currentSnapshot>>
    /\ ViewerFrame

\* the buttons and the items of the list: goToSnapshot of the present render
ClickSnapshot(idx) == goToSnapshot(idx, selectedSnapshotDir)

\* handleKeyPress: ArrowLeft, ArrowRight; the listener is registered again
\* only when currentSnapshotIndex, snapshots or isPlaying change
handleKeyPress(step) == goToSnapshot(currentSnapshotIndex + step, keyPressDir)

\* the answer to a snapshot fetch: setCurrentSnapshot(data), whatever was
\* asked for since.  For a narration the directory does not have, the body is
\* either not JSON (nothing is set) or an error object.
SnapshotLoaded(req) ==
    /\ req \in inflight
    /\ req.kind = "snapshot"
    /\ inflight' = inflight \ {req}
    /\ IF \E k \in 1..Len(ServerMetadata(req.dir)) :
              ServerMetadata(req.dir)[k] = req.narrationId
       THEN currentSnapshot' = ServerSnapshot(req.dir, req.narrationId)
       ELSE currentSnapshot' \in {currentSnapshot, ServerError}
    /\ UNCHANGED <<selectedSnapshotDir, snapshotList, currentSnapshotIndex, keyPressDir>>
    /\ ViewerFrame

ViewerNext ==
    \/ DirectoriesLoaded
    \/ \E dir \in {ServerDirs[k] : k \in 1..Len(ServerDirs)} : SelectDirectory(dir)
    \/ \E req \in inflight : MetadataLoaded(req)
    \/ \E idx \in -1..Len(snapshotList) : ClickSnapshot(idx)
    \/ \E step \in {-1, 1} : handleKeyPress(step)
    \/ \E req \in inflight : SnapshotLoaded(req)

ViewerSpec == ViewerInit /\ [][ViewerNext]_vars

----------------------------------------------------------------------------
(* Properties *)

FoodEntity(n) == extract_entities(n.nouns).food_entity
LastSnapshot == snapshots[Len(snapshots)]
IsPrefix(a, b) == Len(a) <= Len(b) /\ SubSeq(b, 1, Len(a)) = a

\* C1: a narration in which the resolver finds no food entity causes no
\* oracle call and no retry, leaves foods and zones as they were, and gets a
\* snapshot with success = false and reason NoFoodEntity.
C1_SkipIsFrameAndFlagged ==
    (processed > 0 /\ FoodEntity(cur) = None) =>
        /\ pc # "calling"
        /\ sent = <<>> /\ fails = <<>> /\ applied = 0
        /\ kg = kg_before
        /\ Len(snapshots) = processed
        /\ LastSnapshot.snapshot_info.narration_id = cur.narration_id
        /\ LastSnapshot.snapshot_info.update_success = FALSE
        /\ LastSnapshot.snapshot_info.reason = "NoFoodEntity"
        /\ LastSnapshot.kg_state = kg_before

C1_Witness ==
    /\ processed > 1 /\ FoodEntity(cur) = None
    /\ FoodIds(kg) # {} /\ ZoneIds(kg) # {}

\* C2: while a narration is being processed the graph stays as it was when
\* the narration started, through every failed attempt; the graph changes
\* only in the step that applies a proposal, and at most one proposal is
\* applied per narration.
C2_NoMutationBeforeValidation ==
    /\ applied <= 1
    /\ pc = "calling" => kg = kg_before /\ applied = 0
    /\ applied = 0 => kg = kg_before
    /\ applied = 1 => pc # "calling"

C2_Witness ==
    /\ pc = "calling" /\ Len(fails) = 2
    /\ fails[1] # fails[2]
    /\ FoodIds(kg) # {}

C4_BoundedRetry ==
    /\ Len(sent) <= 3
    /\ Len(fails) <= Len(sent)
    /\ Len(sent) = Len(fails) + applied
    /\ pc = "calling" => Len(sent) < 3
    /\ \A i \in 1..Len(fails) :
          LET before == sent[i]
              after  == IF i < Len(sent) THEN sent[i + 1] ELSE prompt
          IN (i < Len(sent) \/ pc = "calling") =>
                IF fails[i] = "unavailable"
                THEN after = before
                ELSE /\ after.notes = Append(before.notes, fails[i])
                     /\ after.node = before.node
                     /\ after.recent = before.recent
                     /\ after.narration = before.narration

C4_Witness ==
    /\ applied = 1
    /\ fails = <<"unavailable", "malformed">>

\* C5: a failed narration never stops the run: under fair scheduling of the
\* orchestrator the run ends with every narration of the input processed, in
\* input order, one snapshot each.
C5_RunTerminates ==
    <>( /\ pc = "done"
        /\ processed = total
        /\ Len(snapshots) = total
        /\ \A i \in 1..total : snapshots[i].snapshot_info.narration_id = i )

C5_Witness ==
    /\ pc = "done"
    /\ Len(snapshots) = 2
    /\ ~snapshots[1].snapshot_info.update_success
    /\ snapshots[1].snapshot_info.reason # "NoFoodEntity"
    /\ snapshots[2].snapshot_info.update_success

\* C6: after k processed narrations there are exactly k snapshots and exactly
\* k index records, one per narration whether it succeeded or failed, in
\* processing order.
C6_OneSnapshotPerNarration ==
    /\ Len(snapshots) = processed
    /\ Len(index) = processed
    /\ \A i \in 1..processed :
          /\ snapshots[i].snapshot_info.narration_id = i
          /\ index[i].narration_id = i
          /\ index[i].success = snapshots[i].snapshot_info.update_success

C6_Witness ==
    /\ processed = 2
    /\ ~index[1].success
    /\ index[2].success

\* C7: the kg_state of a narration's snapshot is the graph right after that
\* narration was processed, and num_foods and num_zones of its index record
\* are the sizes of that state's foods and zones maps.
C7_SnapshotIsGraphAfterStep ==
    /\ processed > 0 => LastSnapshot.kg_state = kg
    /\ \A i \in 1..Len(index) :
          /\ i <= Len(snapshots)
          /\ index[i].num_foods = Cardinality(DOMAIN snapshots[i].kg_state.foods)
          /\ index[i].num_zones = Cardinality(DOMAIN snapshots[i].kg_state.zones)

C7_Witness ==
    /\ processed > 0
    /\ LastSnapshot.snapshot_info.update_success
    /\ Cardinality(FoodIds(kg)) # Cardinality(ZoneIds(kg))
    /\ kg # kg_before

\* C8: snapshots are write-once: no step changes or removes a snapshot that
\* has been written.
C8_SnapshotsWriteOnce ==
    [][ \A i \in 1..Len(snapshots) :
            /\ i <= Len(snapshots')
            /\ snapshots'[i] = snapshots[i] ]_vars

C8_Witness ==
    /\ Len(snapshots) = 2
    /\ snapshots[1].kg_state # kg
    /\ snapshots[1].kg_state # EmptyKG
    /\ persisted = kg

\* C9: interaction_history is append-only: in every step every node stays in
\* the graph and its history before the step is a prefix of its history after.
C9_HistoryAppendOnly ==
    [][ \A f \in FoodIds(kg) :
            /\ f \in FoodIds(kg')
            /\ IsPrefix(kg.foods[f].interaction_history,
                        kg'.foods[f].interaction_history) ]_vars

C9_Witness ==
    \E f \in FoodIds(kg) : Len(kg.foods[f].interaction_history) >= 2

\* the record carries the time range of the narration it was made for
Echoed(r) ==
    /\ r.narration_text \in 1..Len(snapshots)
    /\ r.start_time = snapshots[r.narration_text].snapshot_info.start_time
    /\ r.end_time = snapshots[r.narration_text].snapshot_info.end_time

History(g, f) == g.foods[f].interaction_history

\* C11: first_seen_time of a node is set when the node is created, no step
\* changes it afterwards, and it is the start_time of the first record of the
\* node's interaction_history.
C11_FirstSeenIsFirstStart ==
    [][ /\ \A f \in FoodIds(kg') :
              /\ History(kg', f) # <<>>
              /\ kg'.foods[f].first_seen_time = History(kg', f)[1].start_time
        /\ \A f \in FoodIds(kg) :
              /\ f \in FoodIds(kg')
              /\ kg'.foods[f].first_seen_time = kg.foods[f].first_seen_time ]_vars

C11_Witness ==
    \E f \in FoodIds(kg) :
        /\ Len(History(kg, f)) >= 2
        /\ History(kg, f)[2].start_time # kg.foods[f].first_seen_time
        /\ \E i \in 1..Len(snapshots) :
              /\ f \in DOMAIN snapshots[i].kg_state.foods
              /\ snapshots[i].snapshot_info.start_time
                    # kg.foods[f].first_seen_time

RECURSIVE SumLen(_, _)
SumLen(g, S) ==
    IF S = {} THEN 0
    ELSE LET f == CHOOSE x \in S : TRUE
         IN Len(History(g, f)) + SumLen(g, S \ {f})

\* number of interaction records in the graph
TotalRecords(g) == SumLen(g, FoodIds(g))

\* nodes of kg that are new or whose history differs from kg_before
Touched ==
    { f \in FoodIds(kg) :
        \/ f \notin FoodIds(kg_before)
        \/ History(kg, f) # History(kg_before, f) }

Target == update_command.target_food_id

\* C13 as stated: right after a TAKE is applied the target's location is
\* null, and right after a PLACE that gave a destination the target's
\* location is a zone of the zones map, whatever else the updates held.
C13_LocationAfterTakeAndPlace ==
    applied = 1 =>
        /\ update_command.update_type = "TAKE" =>
              kg.foods[Target].location = NullId
        /\ (update_command.update_type = "PLACE"
              /\ update_command.updates.location.tag = "name") =>
              kg.foods[Target].location \in ZoneIds(kg)

\* the PLACE half of C13 holds of the update path
PlaceSetsZone ==
    (applied = 1 /\ update_command.update_type = "PLACE"
       /\ update_command.updates.location.tag = "name") =>
        /\ kg.foods[Target].location \in ZoneIds(kg)
        /\ kg.zones[kg.foods[Target].location].name
              = update_command.updates.location.val

\* C14 as stated: applying a MODIFY_STATE leaves the target's location as
\* it was, also when the updates hold a location; only state and quantity
\* may change, and one record is appended.
C14_ModifyStateKeepsLocation ==
    (applied = 1 /\ update_command.update_type = "MODIFY_STATE") =>
        /\ Target \in FoodIds(kg_before)
        /\ kg.foods[Target].location = kg_before.foods[Target].location
        /\ kg.foods[Target].name = kg_before.foods[Target].name
        /\ kg.foods[Target].first_seen_time
              = kg_before.foods[Target].first_seen_time
        /\ Len(History(kg, Target)) = Len(History(kg_before, Target)) + 1
        /\ kg.zones = kg_before.zones

\* a MODIFY_STATE whose updates hold no location keeps the location
ModifyStateWithoutLocation ==
    (applied = 1 /\ update_command.update_type = "MODIFY_STATE"
       /\ update_command.updates.location.tag = "absent") =>
        /\ kg.foods[Target].location = kg_before.foods[Target].location
        /\ kg.zones = kg_before.zones

\* nodes of the graph with the given name
Named_(g, name) == { f \in FoodIds(g) : Lower(g.foods[f].name) = Lower(name) }

\* every narration so far names the same food at the same place, in one
\* video (so within the overlap of consecutive rows), and was applied
SameFoodThroughout ==
    /\ processed >= 2
    /\ pc # "calling"
    /\ \A i \in 1..processed :
          /\ snapshots[i].snapshot_info.update_success
          /\ snapshots[i].snapshot_info.video_id
                = snapshots[1].snapshot_info.video_id

\* C15 as stated: consecutive narrations about the same food name, close in
\* time and with the same location context, end with exactly one node of
\* that name, whose history holds all of these interactions.
C15_OneNodePerObject ==
    SameFoodThroughout =>
        \E f \in FoodIds(kg) :
            /\ Named_(kg, "mug") = {f}
            /\ Len(History(kg, f)) = processed

\* C16 as stated: a narration with an explicit ordinal or quantifier
\* ("another mug"), once applied, leaves strictly more nodes of that food
\* name in the graph than there were before it.
C16_QuantifierAddsNode ==
    (applied = 1 /\ cur.another) =>
        Cardinality(Named_(kg, FoodEntity(cur)))
            > Cardinality(Named_(kg_before, FoodEntity(cur)))

\* what the pipeline does guarantee: an answer that validation turns into
\* CREATE_NEW adds exactly one node of the name it gives, however recent the
\* other nodes of that name are
CreateNewAddsNode ==
    (applied = 1 /\ update_command.update_type = "CREATE_NEW") =>
        Cardinality(Named_(kg, update_command.new_food_info.name))
            = Cardinality(Named_(kg_before, update_command.new_food_info.name)) + 1

\* C17 as stated: when the validated command is a CREATE_NEW and the graph
\* holds a node of the same name (case-insensitively) and location context
\* that was created or last touched within the time window, no node is
\* created: the command is applied as MODIFY_STATE on that node, the
\* narration succeeds and its snapshot records DuplicateSuppressed.
C17_DuplicateSuppressed ==
    ( /\ applied = 1
      /\ normalize(llm_output).update_type = "CREATE_NEW"
      /\ duplicates_of(kg_before, normalize(llm_output), cur) # {} ) =>
        /\ update_command = suppress_duplicate(kg_before, normalize(llm_output), cur)
        /\ update_command.update_type = "MODIFY_STATE"
        /\ FoodIds(kg) = FoodIds(kg_before)
        /\ LastSnapshot.snapshot_info.update_success
        /\ LastSnapshot.snapshot_info.reason = "DuplicateSuppressed"

\* the answer carries the data of a new node and names no target
IsCreation(p) == p.new_food_info.present /\ p.target_food_id = NullId

Unknown(t) == t \notin VALID_TYPES \cup ACTION_VERBS

C19_CreationOverridesType ==
    /\ (applied = 1 /\ IsCreation(llm_output)) =>
          /\ update_command.update_type = "CREATE_NEW"
          /\ update_command = [llm_output EXCEPT !.update_type = "CREATE_NEW"]
          /\ Cardinality(FoodIds(kg)) = Cardinality(FoodIds(kg_before)) + 1
    /\ pc = "calling" =>
          \A p \in Proposals(kg, cur) :
              IsCreation(p) =>
                  /\ normalize(p).update_type = "CREATE_NEW"
                  /\ validate_update_command(kg, normalize(p))
                       <=> (p.history_entry.complete /\ p.new_food_info.name # None)

C19_Witness ==
    /\ applied = 1
    /\ IsCreation(llm_output)
    /\ llm_output.update_type = "TAKE"
    /\ update_command.update_type = "CREATE_NEW"
    /\ existing # NullId

Lists(q, f) == \E i \in 1..Len(q) : q[i] = f

\* nodes that are held: location null
Held(g) == { f \in FoodIds(g) : g.foods[f].location = NullId }

\* C21 as stated: a held node is returned by find_food with its name and a
\* location filter exactly when the most recent location_context of its
\* history matches the filter: taking a food from a zone does not hide it
\* from a query scoped to that zone.
C21_HeldFoodStaysFindable ==
    \A f \in Held(kg) : \A z \in LOCATION_KEYWORDS :
        Lists(find_food(kg, kg.foods[f].name, z), f)
            <=> Contains(LastRecord(kg.foods[f]).location_context, z)

\* what find_food does: a held node is never returned by a filtered query,
\* whatever its history says, and always by the unfiltered one
HeldFoodOnlyUnfiltered ==
    \A f \in Held(kg) :
        /\ \A z \in LOCATION_KEYWORDS :
              ~Lists(find_food(kg, kg.foods[f].name, z), f)
        /\ Lists(find_food(kg, kg.foods[f].name, None), f)

\* the held nodes whose name contains the pattern
HeldNamed(g, name) == { f \in Held(g) : Contains(g.foods[f].name, name) }

\* no node of S has a later last interaction than f
MostRecentOf(g, f, S) ==
    /\ f \in S
    /\ \A o \in S : last_interaction_time(g.foods[f]) >= last_interaction_time(g.foods[o])

\* C22 as stated: the matcher returns None exactly when neither the
\* location-filtered query nor the held-food query returns a node; otherwise
\* it returns a held node whenever a held node of the name exists, and the
\* most recent node of the list it chose.
C22_MatcherPrefersHeld ==
    \A name \in FOOD_KEYWORDS : \A z \in LOCATION_KEYWORDS \cup {None} :
        LET m       == match_existing(kg, name, z)
            located == { f \in FoodIds(kg) : Lists(find_food(kg, name, z), f) }
            held    == HeldNamed(kg, name)
        IN /\ m = NullId <=> (located = {} /\ held = {})
           /\ held # {} => MostRecentOf(kg, m, held)
           /\ (held = {} /\ located # {}) => MostRecentOf(kg, m, located)

\* what the matcher does: its second query is unfiltered, so it returns the
\* most recent node of the name, held or not, and None only when the graph
\* has no node of the name
MatcherTakesMostRecentOfName ==
    \A name \in FOOD_KEYWORDS : \A z \in LOCATION_KEYWORDS \cup {None} :
        LET m   == match_existing(kg, name, z)
            all == { f \in FoodIds(kg) : Contains(kg.foods[f].name, name) }
        IN IF all = {} THEN m = NullId ELSE MostRecentOf(kg, m, all)

LocationEntity(n) == extract_entities(n.nouns).location_entity

\* the video_ids of the records of a history
VideosOf(h) == { h[i].video_id : i \in 1..Len(h) }

\* node f of graph g sits in the zone narration n names, carries the food n
\* names without a quantifier, and was last touched in another video than n's
PlacedInOtherVideo(g, f, n) ==
    /\ f \in FoodIds(g)
    /\ LocationEntity(n) # None
    /\ location_matches(g, g.foods[f], LocationEntity(n))
    /\ Contains(g.foods[f].name, FoodEntity(n))
    /\ LastRecord(g.foods[f]).video_id # n.video_id
    /\ ~n.another

\* C23 as stated: a node placed in a zone in one video is the existing match
\* of a later narration of another video that names the same food and zone,
\* and that narration updates the node, whose history then holds records of
\* both videos, instead of creating a second node.
C23_CrossVideoUpdates ==
    (applied = 1 /\ PlacedInOtherVideo(kg_before, existing, cur)) =>
        /\ FoodIds(kg) = FoodIds(kg_before)
        /\ VideosOf(History(kg, existing)) = {Videos[1], Videos[2]}

\* what holds of the matcher: the video of a node plays no part in the match,
\* the only node of the name placed in the named zone is the existing match
\* of a narration of another video
CrossVideoMatchFound ==
    \A f \in FoodIds(kg) :
        (/\ pc = "calling"
         /\ PlacedInOtherVideo(kg, f, cur)
         /\ \A o \in FoodIds(kg) : kg.foods[o].name = kg.foods[f].name => o = f)
            => existing = f

\* what holds of the executor: when the oracle answers with an update of the
\* match, the node's history spans both videos and no node is added
CrossVideoUpdateSpans ==
    (/\ applied = 1 /\ PlacedInOtherVideo(kg_before, existing, cur)
     /\ update_command.update_type # "CREATE_NEW" /\ Target = existing) =>
        /\ FoodIds(kg) = FoodIds(kg_before)
        /\ VideosOf(History(kg, existing)) = {Videos[1], Videos[2]}

\* the mutation a snapshot records: the nodes and zones of its graph b that
\* the graph a of the snapshot before does not hold as they are
Delta(a, b) ==
    [ foods |-> [f \in { x \in FoodIds(b) : x \notin FoodIds(a) \/ a.foods[x] # b.foods[x] }
                    |-> b.foods[f]],
      zones |-> [z \in { x \in ZoneIds(b) : x \notin ZoneIds(a) \/ a.zones[x] # b.zones[x] }
                    |-> b.zones[z]] ]

\* graph g with the mutation d applied again
Overlay(g, d) ==
    [ foods |-> [f \in FoodIds(g) \cup DOMAIN d.foods |->
                    IF f \in DOMAIN d.foods THEN d.foods[f] ELSE g.foods[f]],
      zones |-> [z \in ZoneIds(g) \cup DOMAIN d.zones |->
                    IF z \in DOMAIN d.zones THEN d.zones[z] ELSE g.zones[z]] ]

\* the first k snapshots replayed in order from the initial graph: only the
\* snapshots of applied updates mutate
RECURSIVE Replay(_, _)
Replay(snaps, k) ==
    IF k = 0 THEN EmptyKG
    ELSE LET g    == Replay(snaps, k - 1)
             prev == IF k = 1 THEN EmptyKG ELSE snaps[k - 1].kg_state
         IN IF snaps[k].snapshot_info.update_success
            THEN Overlay(g, Delta(prev, snaps[k].kg_state))
            ELSE g

\* C24: replaying the snapshots in order from the initial graph, reapplying
\* only the mutations they record, gives the live graph, and the kg_state of
\* the last snapshot is the live graph.
C24_ReplayReproducesGraph ==
    /\ Replay(snapshots, Len(snapshots)) = kg
    /\ snapshots # <<>> => LastSnapshot.kg_state = kg
    /\ snapshots = <<>> => kg = EmptyKG

\* two rows replayed, both applied, the second a mutation of a non-empty graph
C24_Witness ==
    /\ pc = "done"
    /\ Len(snapshots) = 2
    /\ snapshots[1].snapshot_info.update_success
    /\ snapshots[2].snapshot_info.update_success
    /\ snapshots[1].kg_state # snapshots[2].kg_state
    /\ total = 2

\* the graph as it was after row k of the run
GraphAfter(k) == IF k = 0 THEN EmptyKG ELSE snapshots[k].kg_state

C26_SnapshotFailureAbsorbed ==
    [][ (processed' = processed + 1 /\ disk = "failing") =>
            /\ pc' = "idle"
            /\ snapshots' = snapshots
            /\ Len(index') = Len(index) + 1
            /\ kg' = IF applied' = 1
                     THEN execute_kg_update(kg, update_command', cur')
                     ELSE kg ]_vars

\* both rows were applied while the snapshot directory was failing
C26_Witness ==
    /\ pc = "done"
    /\ processed = 2
    /\ snapshots = <<>>
    /\ disk = "failing"
    /\ applied = 1
    /\ Cardinality(FoodIds(kg)) = 2

Created == CHOOSE f \in FoodIds(kg) : f \notin FoodIds(kg_before)

\* the zone of graph g a location value of the oracle stands for
ZoneFor(g, loc) ==
    IF loc.tag = "id" /\ loc.val \in ZoneIds(g) THEN loc.val
    ELSE get_zone_by_name(g, zone_name_of(loc))

NamesNewZone(g, loc) ==
    /\ loc.tag \in {"name", "id"}
    /\ ZoneFor(g, loc) = NullId

StateBefore(i) == IF i = 1 THEN EmptyKG ELSE snapshots[i - 1].kg_state

\* graph b is graph a with one interaction record appended to one node, old
\* or new
OneRecordAppended(a, b) ==
    /\ TotalRecords(b) = TotalRecords(a) + 1
    /\ \A f \in FoodIds(a) :
          f \in FoodIds(b) /\ IsPrefix(History(a, f), History(b, f))
    /\ Cardinality({ f \in FoodIds(b) :
                        f \notin FoodIds(a) \/ History(a, f) # History(b, f) }) = 1

C32_PromptHistoryWindow ==
    pc = "calling" =>
        IF existing = NullId
        THEN /\ prompt.node = <<"NO EXISTING FOOD NODE FOUND">>
             /\ prompt.recent = <<>>
        ELSE LET h == History(kg, existing)
                 k == IF Len(h) <= HistoryWindow THEN Len(h) ELSE HistoryWindow
             IN /\ Len(prompt.recent) = k
                /\ \A i \in 1..k : prompt.recent[i] = h[Len(h) - k + i]

\* a prompt was built for a node whose history is longer than the window
C32_Witness ==
    /\ pc = "calling"
    /\ existing # NullId
    /\ Len(History(kg, existing)) = MaxHistory
    /\ Len(prompt.recent) = HistoryWindow
    /\ prompt.notes # <<>>

\* the list is in the order of its start times
SortedByStartTime(q) ==
    \A i \in 1..Len(q) : \A j \in i..Len(q) : q[i].startTime <= q[j].startTime

\* the tasks of the list whose id is ticked
SelectedInList == SelectSeq(tasks, LAMBDA t : t.id \in selectedTasks)

\* what a merge of the ticked tasks has to leave behind
MergedAsSelected(n) ==
    /\ TaskIds(tasks') = (TaskIds(tasks) \ selectedTasks) \cup {nextMergedId}
    /\ Len(tasks') = Len(tasks) - n + 1
    /\ \E i \in 1..Len(tasks') :
          /\ tasks'[i].id = nextMergedId
          /\ tasks'[i].startTime = calculateTimestampUnion(SelectedInList).startTime
          /\ tasks'[i].endTime = calculateTimestampUnion(SelectedInList).endTime
          /\ tasks'[i].mergeCount = n
          /\ tasks'[i].status = "pending"
    /\ \A i \in 1..Len(tasks') :
          tasks'[i].id # nextMergedId =>
              \E j \in 1..Len(tasks) : tasks[j] = tasks'[i]
    /\ SortedByStartTime(tasks')
    /\ selectedTasks' = {}
    /\ mergeMode' = FALSE

\* C33: mergeSelectedTasks with at least 2 ticked tasks removes exactly the
\* ticked tasks and adds one merged task spanning their times, with mergeCount
\* the number ticked and status pending; the list stays sorted, the selection
\* is cleared and merge mode is left; with fewer than 2 ticked it changes
\* nothing.
C33_MergeReplacesSelection ==
    [][lastAction' = "merge" =>
          IF Cardinality(selectedTasks) >= 2
          THEN MergedAsSelected(Cardinality(selectedTasks))
          ELSE UNCHANGED <<tasks, selectedTasks, mergeMode, actionHistory,
                           nextMergedId, currentTaskIndex>>]_vars

\* the same for a selection all of whose ids are still in the list
MergeOfPresentSelection ==
    [][(lastAction' = "merge" /\ selectedTasks \subseteq TaskIds(tasks)) =>
          IF Cardinality(selectedTasks) >= 2
          THEN MergedAsSelected(Cardinality(selectedTasks))
          ELSE UNCHANGED <<tasks, selectedTasks, mergeMode, actionHistory,
                           nextMergedId, currentTaskIndex>>]_vars

\* a merged task made of a single task: a ticked id was no longer in the list
MergeOfOne ==
    \E i \in 1..Len(tasks) : tasks[i].isMerged /\ tasks[i].mergeCount = 1

\* the last handler was a merge or an unmerge that changed the list
JustRestructured ==
    /\ lastAction \in {"merge", "unmerge"}
    /\ tasks # tasksBefore

\* the elements of a list
Elements(q) == {q[i] : i \in 1..Len(q)}

\* C34: undoLastAction directly after a merge or an unmergeSubEvent restores
\* the task list to exactly the list before that action (same tasks, same
\* ids, same order) and removes the action from the history; undo with an
\* empty history changes nothing.
C34_UndoRestoresList ==
    [][lastAction' = "undo" =>
          /\ actionHistory = <<>> =>
                UNCHANGED <<tasks, actionHistory, currentTaskIndex,
                            selectedTasks, mergeMode, nextMergedId>>
          /\ (actionHistory # <<>> /\ JustRestructured) =>
                /\ tasks' = tasksBefore
                /\ actionHistory' = SubSeq(actionHistory, 1, Len(actionHistory) - 1)]_vars

\* the same up to the order of tasks that start at the same time
UndoRestoresTasks ==
    [][lastAction' = "undo" =>
          /\ actionHistory = <<>> =>
                UNCHANGED <<tasks, actionHistory, currentTaskIndex,
                            selectedTasks, mergeMode, nextMergedId>>
          /\ (actionHistory # <<>> /\ JustRestructured) =>
                /\ Elements(tasks') = Elements(tasksBefore)
                /\ Len(tasks') = Len(tasksBefore)
                /\ SortedByStartTime(tasks')
                /\ actionHistory' = SubSeq(actionHistory, 1, Len(actionHistory) - 1)]_vars

\* an undo has put the same tasks back in another order
UndoReordered ==
    /\ lastAction = "undo"
    /\ \E i \in 1..Len(tasks) : \E j \in i + 1..Len(tasks) :
          /\ tasks[i].id > tasks[j].id
          /\ tasks[i].originalTasks = <<>> /\ tasks[j].originalTasks = <<>>

\* the interaction ids of the loaded file
LoadedIds == {data[i].id : i \in 1..Len(data)}

\* the interaction ids a task covers: its id or an id in its originalIds
Covers(t) == {t.id} \cup {t.originalIds[k] : k \in 1..Len(t.originalIds)}

\* every loaded id is covered by exactly one task, and no two tasks share an id
CoveredOnce ==
    /\ \A x \in LoadedIds :
          Cardinality({i \in 1..Len(tasks) : x \in Covers(tasks[i])}) = 1
    /\ \A i \in 1..Len(tasks) : \A j \in 1..Len(tasks) :
          tasks[i].id = tasks[j].id => i = j

\* the sub-events of the merged tasks of the list before the last handler
SubEventsBefore ==
    UNION {Elements(tasksBefore[i].originalTasks) : i \in 1..Len(tasksBefore)}

\* the tasks the last handler added to the list
AddedTasks == {t \in Elements(tasks) : t \notin Elements(tasksBefore)}

\* C35: after any sequence of merge, unmerge-sub-event and undo operations
\* every loaded interaction id is covered by exactly one task (as its id or in
\* its originalIds), no two tasks share an id, and an unmerged sub-event is
\* back as a task equal to the task that was merged in.
C35_IdsCoveredAndUnmergeExact ==
    /\ CoveredOnce
    /\ (lastAction = "unmerge" /\ tasks # tasksBefore) =>
          \E t \in AddedTasks : t \in SubEventsBefore

\* coverage and distinct ids alone
IdsCoveredOnce == CoveredOnce

\* an unmerged sub-event is back with its times, its original ids and its
\* sub-events, pending
UnmergeKeepsTimesAndIds ==
    (lastAction = "unmerge" /\ tasks # tasksBefore) =>
        \E t \in AddedTasks : \E u \in SubEventsBefore :
            /\ t.startTime = u.startTime /\ t.endTime = u.endTime
            /\ t.originalIds = u.originalIds
            /\ t.originalTasks = u.originalTasks
            /\ t.status = "pending"

\* a merged task that was unmerged from a merged task is in the list under
\* the id of its first interaction, flagged as not merged
MergedTaskFlattened ==
    \E i \in 1..Len(tasks) :
        /\ ~tasks[i].isMerged
        /\ Len(tasks[i].originalIds) > 1
        /\ tasks[i].id = tasks[i].originalIds[1]

\* an accepted task was merged and unmerged and is pending again
AcceptedComesBackPending ==
    /\ lastAction = "unmerge"
    /\ \E t \in AddedTasks : \E u \in SubEventsBefore :
          /\ u.status = "accepted" /\ ~u.isMerged
          /\ t = [u EXCEPT !.status = "pending"]

\* C36: navigating from the current task to a different task (next, previous,
\* jump, click in the queue) sets the task left to accepted if and only if it
\* was pending, a rejected or accepted task keeps its status, nothing else
\* changes in the list; navigation to an index outside [0, tasks.length-1]
\* changes neither the current index nor any status.
C36_LeavingAcceptsPending ==
    [][/\ lastAction' \in {"jump", "next", "previous"} =>
            IF currentTaskIndex' # currentTaskIndex /\ HasCurrentTask
            THEN tasks' = [tasks EXCEPT ![currentTaskIndex + 1].status =
                              IF @ = "pending" THEN "accepted" ELSE @]
            ELSE tasks' = tasks
       /\ lastAction' = "jumpOutside" =>
            UNCHANGED <<tasks, currentTaskIndex>>]_vars

\* the first task was rejected and then left with the arrow key: it is still
\* rejected, and the task arrived at is pending
C36_Witness ==
    /\ lastAction = "next"
    /\ currentTaskIndex = 1
    /\ tasks[1].status = "rejected"
    /\ tasks[2].status = "pending"

\* C37: currentTaskIndex is a valid index of the task list whenever the list
\* is not empty, after every operation.
C37_CurrentIndexValid ==
    tasks # <<>> => (currentTaskIndex >= 0 /\ currentTaskIndex < Len(tasks))

\* the index stays valid as long as the list is not restructured
CurrentIndexValidInReview == C37_CurrentIndexValid

\* a merge has shortened the list below the current index: no task is shown
CurrentTaskLost ==
    /\ lastAction = "merge"
    /\ tasks # <<>>
    /\ currentTaskIndex >= Len(tasks)

\* C38: for every task startTime <= endTime holds after any sequence of time
\* adjustments by the keys and by drags on the timeline.
C38_StartNotAfterEnd ==
    \A i \in 1..Len(tasks) : tasks[i].startTime <= tasks[i].endTime

\* a drag of a task whose times are in order and in the video leaves them so,
\* the start at least the gap below the end
DragKeepsGap ==
    [][(lastAction' = "mouseMove" /\ tasks' # tasks) =>
          \A i \in 1..Len(tasks) :
              (/\ tasks'[i] # tasks[i]
               /\ \A k \in 1..Len(listeners) : listeners[k].isDragging =>
                     /\ listeners[k].task.startTime >= 0
                     /\ listeners[k].task.startTime < listeners[k].task.endTime
                     /\ listeners[k].task.endTime <= VideoDuration) =>
                  /\ tasks'[i].startTime + DragGap <= tasks'[i].endTime
                  /\ tasks'[i].startTime >= 0
                  /\ tasks'[i].endTime <= VideoDuration]_vars

\* a drag has changed a task
DragActed == lastAction = "mouseMove" /\ \E i \in 1..Len(tasks) :
                 tasks[i].startTime \notin {0, 2, 10}

\* the keys have put the start of a task behind its end
StartAfterEndByKeys ==
    /\ lastAction = "adjustStartTime"
    /\ listeners = <<>>
    /\ \E i \in 1..Len(tasks) : tasks[i].startTime > tasks[i].endTime

\* currentSnapshotIndex is an index of the loaded list, 0 for an empty list
SnapshotIndexValid ==
    /\ currentSnapshotIndex >= 0
    /\ currentSnapshotIndex < (IF snapshotList = <<>> THEN 1 ELSE Len(snapshotList))

\* with no fetch pending, the snapshot displayed is the one at
\* currentSnapshotIndex of the selected directory
DisplayedIsCurrent ==
    (inflight = {} /\ snapshotList # <<>> /\ SnapshotIndexValid) =>
        currentSnapshot = ServerSnapshot(selectedSnapshotDir,
                                         snapshotList[currentSnapshotIndex + 1])

\* C39: currentSnapshotIndex is always a valid index of the loaded snapshot
\* list, and once all pending fetches have completed the snapshot displayed
\* is the one at currentSnapshotIndex of the selected directory, whatever
\* order the answers arrive in.
C39_IndexValidAndDisplayedCurrent ==
    /\ SnapshotIndexValid
    /\ DisplayedIsCurrent

\* navigation alone never leaves the range of the list
NavigationStaysInRange ==
    [][(snapshotList' = snapshotList /\ SnapshotIndexValid) =>
           SnapshotIndexValid']_vars

\* an empty directory was selected while a later snapshot was current: the
\* index and the snapshot of the directory left are still there
StaleIndexOnEmptyDirectory ==
    /\ inflight = {}
    /\ selectedSnapshotDir = "empty"
    /\ snapshotList = <<>>
    /\ currentSnapshotIndex > 0
    /\ currentSnapshot # NullId

\* the answers came in another order than the requests: with nothing pending
\* the snapshot displayed is not the current one of the list
StaleSnapshotDisplayed ==
    /\ inflight = {}
    /\ snapshotList = ServerMetadata(selectedSnapshotDir)
    /\ snapshotList # <<>>
    /\ currentSnapshotIndex < Len(snapshotList)
    /\ currentSnapshot # ServerSnapshot(selectedSnapshotDir,
                                        snapshotList[currentSnapshotIndex + 1])
    /\ currentSnapshot[1] = selectedSnapshotDir

\* the run with the orchestrator's loop scheduled fairly
FairSpec == Spec /\ WF_vars(Next)

====
